---------------------------- MODULE Spec2Model ----------------------------
(***************************************************************************)
(* A model of PyPlate (src/PyPlate.py): the Plate class with its           *)
(* coordinate resolution and its dispensing operations, and the Reagent,   *)
(* Solvent and StockSolution objects that are dispensed.                   *)
(*                                                                         *)
(* Conventions of the translation:                                         *)
(*  - a Python value is a record tagged with its type in field t:          *)
(*    IntV(i), StrV(s), TupV(e), ListV(e), NoneV, FloatV(x);               *)
(*  - a Python string is a sequence of one-character strings;              *)
(*  - a Python object (Reagent, Solvent, StockSolution) is a record of     *)
(*    its attributes with a field id, its identity; a reference to an      *)
(*    object is its id.  The classes define no __eq__ or __hash__, so      *)
(*    ==, `in` and dict keys go by identity;                               *)
(*  - a call either returns, Ok(v), or raises, Raise(err, msg);            *)
(*  - numbers are integers (FloatV(x) is the float of integer value x):   *)
(*    the model covers the volumes and concentrations that floating        *)
(*    point adds and multiplies exactly.                                   *)
(***************************************************************************)
EXTENDS Integers, Sequences, FiniteSets, TLC

VARIABLES
    n_rows,               \* Plate.n_rows
    row_names,            \* Plate.row_names
    n_columns,            \* Plate.n_columns
    column_names,         \* Plate.column_names
    max_volume_per_well,  \* Plate.max_volume_per_well
    reagents,             \* Plate.reagents: list of Reagent objects
    volumes,              \* Plate.volumes: grid, <<row, column>> -> uL
    moles,                \* Plate.moles: list of grids (<<>> models None)
    instructions,         \* Plate.instructions: list of <<what, canonical map>>
    volumes_used,         \* Plate.volumes_used: ordered list of <<what, uL>>
    call,                 \* the call that has just ended (NoCall: none pending)
    raised,               \* the exception that call raised (NotRaised: it returned)
    returned,             \* the value that call returned
    warned,               \* whether that call printed the overflow warning
    calls_returned,       \* how many dispensing calls have returned normally
    stock_solutions       \* the StockSolution objects a script has constructed

plate_vars == <<n_rows, row_names, n_columns, column_names, max_volume_per_well>>
state_vars == <<reagents, volumes, moles, instructions, volumes_used>>
call_vars == <<call, raised, returned, warned, calls_returned>>
vars == <<plate_vars, state_vars, call_vars, stock_solutions>>

---------------------------------------------------------------------------
(* Python values *)

IntV(i) == [t |-> "int", i |-> i]
StrV(s) == [t |-> "str", s |-> s]
TupV(e) == [t |-> "tuple", e |-> e]
ListV(e) == [t |-> "list", e |-> e]
FloatV(x) == [t |-> "float", x |-> x]
NoneV == [t |-> "none"]

Ok(v) == [ok |-> TRUE, val |-> v]
Raise(err, msg) == [ok |-> FALSE, err |-> err, msg |-> msg]

NotRaised == [err |-> "none", msg |-> ""]
Exception(r) == [err |-> r.err, msg |-> r.msg]
NoCall == [op |-> "none"]

---------------------------------------------------------------------------
(* Python strings *)

Digits == <<"0", "1", "2", "3", "4", "5", "6", "7", "8", "9">>

is_digit(c) == \E k \in 1..Len(Digits) : Digits[k] = c

digit_value(c) == (CHOOSE k \in 1..Len(Digits) : Digits[k] = c) - 1

\* str.strip(): leading and trailing whitespace removed
RECURSIVE lstrip(_)
lstrip(s) == IF s # <<>> /\ Head(s) = " " THEN lstrip(Tail(s)) ELSE s

RECURSIVE rstrip(_)
rstrip(s) ==
    IF s # <<>> /\ s[Len(s)] = " " THEN rstrip(SubSeq(s, 1, Len(s) - 1)) ELSE s

strip(s) == rstrip(lstrip(s))

\* str.count(c) for a one-character c
RECURSIVE count(_, _)
count(s, c) ==
    IF s = <<>> THEN 0 ELSE (IF Head(s) = c THEN 1 ELSE 0) + count(Tail(s), c)

\* str.split(sep) for a one-character sep: the list of the fields
RECURSIVE split(_, _)
split(s, sep) ==
    IF \A k \in 1..Len(s) : s[k] # sep
    THEN <<s>>
    ELSE LET k == CHOOSE j \in 1..Len(s) :
                      s[j] = sep /\ \A m \in 1..(j - 1) : s[m] # sep
         IN <<SubSeq(s, 1, k - 1)>> \o split(SubSeq(s, k + 1, Len(s)), sep)

RECURSIVE digits_value(_)
digits_value(s) ==
    IF s = <<>> THEN 0
    ELSE 10 * digits_value(SubSeq(s, 1, Len(s) - 1)) + digit_value(s[Len(s)])

\* whether int(s) parses the string s: optional whitespace around an
\* optional sign and one or more digits
int_parses(s) ==
    LET b == strip(s)
        d == IF b # <<>> /\ Head(b) \in {"+", "-"} THEN Tail(b) ELSE b
    IN d # <<>> /\ \A k \in 1..Len(d) : is_digit(d[k])

\* int(s) for a string that parses
int_of(s) ==
    LET b == strip(s)
    IN IF Head(b) = "-" THEN 0 - digits_value(Tail(b))
       ELSE IF Head(b) = "+" THEN digits_value(Tail(b))
       ELSE digits_value(b)

\* f"{i}" for an integer i >= 0
RECURSIVE format_int(_)
format_int(i) ==
    IF i < 10 THEN <<Digits[i + 1]>>
    ELSE format_int(i \div 10) \o <<Digits[(i % 10) + 1]>>

\* python's `x in list` and list.index(x)
contains(list, x) == \E k \in 1..Len(list) : list[k] = x

index(list, x) ==
    (CHOOSE k \in 1..Len(list) : list[k] = x /\ \A m \in 1..(k - 1) : list[m] # x) - 1

has_duplicates(list) == \E j, k \in 1..Len(list) : j < k /\ list[j] = list[k]

\* is_integer(s): int(s) succeeds; only ValueError is caught, so a list or
\* None makes the TypeError of int() escape
is_integer(s) ==
    IF s.t = "str" THEN Ok(int_parses(s.s))
    ELSE IF s.t \in {"int", "float"} THEN Ok(TRUE)
    ELSE Raise("TypeError", "int() argument")

---------------------------------------------------------------------------
(* Reagent, Solvent, StockSolution: the constructors.  The first argument  *)
(* id is the identity of the object that is being constructed.             *)

is_number(v) == v.t \in {"int", "float"}

number_value(v) == IF v.t = "int" THEN v.i ELSE v.x

Reagent(id, name, molecular_weight, reagent_type, density) ==
    IF name.t # "str" \/ Len(name.s) = 0
    THEN Raise("ValueError", "invalid reagent name")
    ELSE IF ~is_number(molecular_weight) \/ number_value(molecular_weight) <= 0
    THEN Raise("ValueError", "invalid molecular weight")
    ELSE IF reagent_type = "None"
    THEN Raise("ValueError", "invalid reagent type")
    ELSE IF reagent_type = "LIQUID"
    THEN IF ~is_number(density) \/ number_value(density) <= 0
         THEN Raise("ValueError", "invalid density")
         ELSE Ok([cls |-> "Reagent", id |-> id, name |-> name.s,
                  molecular_weight |-> number_value(molecular_weight),
                  reagent_type |-> reagent_type,
                  density |-> number_value(density)])
    ELSE IF reagent_type = "SOLID"
    THEN IF density # NoneV
         THEN Raise("ValueError", "cannot have density for solid reagents")
         ELSE Ok([cls |-> "Reagent", id |-> id, name |-> name.s,
                  molecular_weight |-> number_value(molecular_weight),
                  reagent_type |-> reagent_type, density |-> NoneV])
    ELSE Raise("ValueError", "unknown reagent type")

create_solid(id, name, molecular_weight) ==
    Reagent(id, name, molecular_weight, "SOLID", NoneV)

create_liquid(id, name, molecular_weight, density) ==
    Reagent(id, name, molecular_weight, "LIQUID", density)

Solvent(id, name, volume) ==
    IF name.t # "str"
    THEN Raise("ValueError", "solvent name must be string")
    ELSE IF Len(name.s) = 0
    THEN Raise("ValueError", "solvent has zero-length name")
    ELSE IF ~is_number(volume)
    THEN Raise("ValueError", "expected number for volume")
    ELSE IF number_value(volume) <= 0
    THEN Raise("ValueError", "volume must be positive")
    ELSE Ok([cls |-> "Solvent", id |-> id, name |-> name.s,
             volume |-> number_value(volume)])

\* > in place of >= at line 133
StockSolution_not_more_concentrated(id, what, concentration, solvent, volume) ==
    IF what.cls \notin {"Reagent", "StockSolution"}
    THEN Raise("ValueError", "expected a Reagent or StockSolution")
    ELSE IF /\ what.cls = "StockSolution"
            /\ number_value(concentration) > what.concentration
    THEN Raise("ValueError", "must be more dilute")
    ELSE IF what.cls = "StockSolution" /\ solvent.id # what.solvent
    THEN Raise("ValueError", "dilutions must be made in the same solvent")
    ELSE IF ~is_number(concentration) \/ number_value(concentration) <= 0
    THEN Raise("ValueError", "invalid concentration")
    ELSE IF solvent.cls # "Solvent"
    THEN Raise("ValueError", "expected a Solvent for the solvent")
    ELSE IF ~is_number(volume) \/ number_value(volume) <= 0
    THEN Raise("ValueError", "invalid volume")
    ELSE Ok([cls |-> "StockSolution", id |-> id, what |-> what.id,
             name |-> what.name,
             reagent |-> IF what.cls = "Reagent" THEN what.id ELSE what.reagent,
             concentration |-> number_value(concentration),
             solvent |-> solvent.id,
             volume |-> number_value(volume)])

\* the reagent of a dilution is what it was made from (line 142)
StockSolution_of_its_base(id, what, concentration, solvent, volume) ==
    IF what.cls \notin {"Reagent", "StockSolution"}
    THEN Raise("ValueError", "expected a Reagent or StockSolution")
    ELSE IF /\ what.cls = "StockSolution"
            /\ number_value(concentration) >= what.concentration
    THEN Raise("ValueError", "must be more dilute")
    ELSE IF what.cls = "StockSolution" /\ solvent.id # what.solvent
    THEN Raise("ValueError", "dilutions must be made in the same solvent")
    ELSE IF ~is_number(concentration) \/ number_value(concentration) <= 0
    THEN Raise("ValueError", "invalid concentration")
    ELSE IF solvent.cls # "Solvent"
    THEN Raise("ValueError", "expected a Solvent for the solvent")
    ELSE IF ~is_number(volume) \/ number_value(volume) <= 0
    THEN Raise("ValueError", "invalid volume")
    ELSE Ok([cls |-> "StockSolution", id |-> id, what |-> what.id,
             name |-> what.name,
             reagent |-> what.id,
             concentration |-> number_value(concentration),
             solvent |-> solvent.id,
             volume |-> number_value(volume)])

StockSolution(id, what, concentration, solvent, volume) ==
    IF what.cls \notin {"Reagent", "StockSolution"}
    THEN Raise("ValueError", "expected a Reagent or StockSolution")
    ELSE IF /\ what.cls = "StockSolution"
            /\ number_value(concentration) >= what.concentration
    THEN Raise("ValueError", "must be more dilute")
    ELSE IF what.cls = "StockSolution" /\ solvent.id # what.solvent
    THEN Raise("ValueError", "dilutions must be made in the same solvent")
    ELSE IF ~is_number(concentration) \/ number_value(concentration) <= 0
    THEN Raise("ValueError", "invalid concentration")
    ELSE IF solvent.cls # "Solvent"
    THEN Raise("ValueError", "expected a Solvent for the solvent")
    ELSE IF ~is_number(volume) \/ number_value(volume) <= 0
    THEN Raise("ValueError", "invalid volume")
    ELSE Ok([cls |-> "StockSolution", id |-> id, what |-> what.id,
             name |-> what.name,
             reagent |-> IF what.cls = "Reagent" THEN what.id ELSE what.reagent,
             concentration |-> number_value(concentration),
             solvent |-> solvent.id,
             volume |-> number_value(volume)])

---------------------------------------------------------------------------
(* Plate.__init__ *)

\* [f"{i+1}" for i in range(n)]
count_names(n) == [k \in 1..n |-> format_int(k)]

\* no check of is_integer at lines 290-293
axis_names_error_but_integers(names) ==
    IF Len(names) = 0 THEN "must have at least one row"
    ELSE IF \E k \in 1..Len(names) :
               /\ \A m \in 1..(k - 1) :
                      /\ names[m].t = "str"
                      /\ Len(strip(names[m].s)) # 0
                      /\ ~int_parses(names[m].s)
               /\ names[k].t # "str"
    THEN "names must be strings"
    ELSE IF \E k \in 1..Len(names) :
               /\ \A m \in 1..(k - 1) :
                      Len(strip(names[m].s)) # 0 /\ ~int_parses(names[m].s)
               /\ Len(strip(names[k].s)) = 0
    THEN "zero length strings are not allowed"
    ELSE IF has_duplicates(names) THEN "duplicate names found"
    ELSE ""

\* no check of duplicates at lines 294-295
axis_names_error_but_duplicates(names) ==
    IF Len(names) = 0 THEN "must have at least one row"
    ELSE IF \E k \in 1..Len(names) : names[k].t # "str" THEN "names must be strings"
    ELSE IF \E k \in 1..Len(names) : Len(strip(names[k].s)) = 0
    THEN "zero length strings are not allowed"
    ELSE IF \E k \in 1..Len(names) : is_integer(names[k]).val
    THEN "names that are integers"
    ELSE ""

\* the checks of one axis given as a list of names (rows: lines 281-297,
\* columns: lines 315-331)
axis_names_error(names) ==
    IF Len(names) = 0 THEN "must have at least one row"
    ELSE IF \E k \in 1..Len(names) :
               /\ \A m \in 1..(k - 1) :
                      /\ names[m].t = "str"
                      /\ Len(strip(names[m].s)) # 0
                      /\ ~int_parses(names[m].s)
               /\ names[k].t # "str"
    THEN "names must be strings"
    ELSE IF \E k \in 1..Len(names) :
               /\ \A m \in 1..(k - 1) :
                      Len(strip(names[m].s)) # 0 /\ ~int_parses(names[m].s)
               /\ Len(strip(names[k].s)) = 0
    THEN "zero length strings are not allowed"
    ELSE IF \E k \in 1..Len(names) : is_integer(names[k]).val
    THEN "names that are integers"
    ELSE IF has_duplicates(names) THEN "duplicate names found"
    ELSE ""

\* the attributes a Plate has after __init__(name, make, rows, columns,
\* max_volume_per_well), or the exception
Plate(rows, columns, max_volume) ==
    IF rows.t = "int" /\ rows.i < 1
    THEN Raise("ValueError", "illegal number of rows")
    ELSE IF rows.t = "list" /\ axis_names_error(rows.e) # ""
    THEN Raise("ValueError", axis_names_error(rows.e))
    ELSE IF rows.t \notin {"int", "list"}
    THEN Raise("ValueError", "rows must be int or list")
    ELSE IF ~is_number(max_volume) \/ number_value(max_volume) <= 0
    THEN Raise("ValueError", "invalid max volume per well")
    ELSE IF columns.t = "int" /\ columns.i < 1
    THEN Raise("ValueError", "illegal number of columns")
    ELSE IF columns.t = "list" /\ axis_names_error(columns.e) # ""
    THEN Raise("ValueError", axis_names_error(columns.e))
    ELSE IF columns.t \notin {"int", "list"}
    THEN Raise("ValueError", "columns must be int or list")
    ELSE LET nr == IF rows.t = "int" THEN rows.i ELSE Len(rows.e)
             nc == IF columns.t = "int" THEN columns.i ELSE Len(columns.e)
         IN Ok([n_rows |-> nr,
                row_names |-> IF rows.t = "int" THEN count_names(nr)
                              ELSE [k \in 1..nr |-> rows.e[k].s],
                n_columns |-> nc,
                column_names |-> IF columns.t = "int" THEN count_names(nc)
                                 ELSE [k \in 1..nc |-> columns.e[k].s],
                max_volume_per_well |-> number_value(max_volume),
                reagents |-> <<>>,
                volumes |-> [w \in (0..(nr - 1)) \X (0..(nc - 1)) |-> 0],
                moles |-> <<>>,
                instructions |-> <<>>,
                volumes_used |-> <<>>])

\* UPPERCASE_LETTERS = list(ascii_uppercase)
UPPERCASE_LETTERS ==
    <<"A", "B", "C", "D", "E", "F", "G", "H", "I", "J", "K", "L", "M",
      "N", "O", "P", "Q", "R", "S", "T", "U", "V", "W", "X", "Y", "Z">>

\* UPPERCASE_LETTERS[:n] as a list of strings
letters(n) == ListV([k \in 1..n |-> StrV(<<UPPERCASE_LETTERS[k]>>)])

Generic96WellPlate(max_volume) == Plate(letters(8), IntV(12), max_volume)

Generic384WellPlate(max_volume) == Plate(letters(16), IntV(24), max_volume)

\* the variables hold a newly constructed plate
IsNewPlate(p) ==
    /\ n_rows = p.n_rows
    /\ row_names = p.row_names
    /\ n_columns = p.n_columns
    /\ column_names = p.column_names
    /\ max_volume_per_well = p.max_volume_per_well
    /\ reagents = p.reagents
    /\ volumes = p.volumes
    /\ moles = p.moles
    /\ instructions = p.instructions
    /\ volumes_used = p.volumes_used

---------------------------------------------------------------------------
(* Plate.get_canonical_form *)

\* lines 386-406: the row of a location to a row index
row_index(row) ==
    IF row.t = "str"
    THEN IF Len(row.s) = 0 THEN Raise("ValueError", "empty row")
         ELSE IF contains(row_names, row.s) THEN Ok(index(row_names, row.s))
         ELSE IF int_parses(row.s) /\ int_of(row.s) > 0 /\ int_of(row.s) <= n_rows
         THEN Ok(int_of(row.s) - 1)
         ELSE Raise("ValueError", "does not correspond to a valid row")
    ELSE IF row.t = "int"
    THEN IF row.i < 1 \/ row.i > n_rows
         THEN Raise("ValueError", "row out of range")
         ELSE Ok(row.i - 1)
    ELSE Raise("ValueError", "must specify row as 1-indexed number or row name")

\* lines 408-432: the column of a location to a column index
column_index(column) ==
    IF column.t = "str"
    THEN IF Len(column.s) = 0 THEN Raise("ValueError", "empty column")
         ELSE IF contains(column_names, column.s)
         THEN Ok(index(column_names, column.s))
         ELSE IF /\ int_parses(column.s)
                 /\ int_of(column.s) > 0
                 /\ int_of(column.s) <= n_columns
         THEN Ok(int_of(column.s) - 1)
         ELSE Raise("ValueError", "does not correspond to a valid column")
    ELSE IF column.t = "int"
    THEN IF column.i < 1 \/ column.i > n_columns
         THEN Raise("ValueError", "column out of range")
         ELSE Ok(column.i - 1)
    ELSE Raise("ValueError",
               "must specify column as 1-indexed number or column name")

\* lines 375-378: the fields of a location string to a tuple
fields_tuple(fields) ==
    IF Len(fields) # 2 THEN Raise("ValueError", "malformed location string")
    ELSE Ok(TupV(<<StrV(fields[1]), StrV(fields[2])>>))

\* lines 374-382: a location string to a tuple, and the checks of a tuple
location_tuple(location) ==
    IF location.t = "str" THEN fields_tuple(split(location.s, ":"))
    ELSE IF location.t # "tuple" THEN Raise("ValueError", "must be a tuple")
    ELSE IF Len(location.e) # 2
    THEN Raise("ValueError", "locations must be tuples of length 2")
    ELSE Ok(location)

\* lines 434-435: the result, once the row and the column are converted (an
\* exception of the row's conversion comes before the column's)
canonical_result(row, column) ==
    IF ~row.ok THEN row
    ELSE IF ~column.ok THEN column
    ELSE Ok(<<row.val, column.val>>)

\* lines 384-435: row, column = location, and their conversion
canonical_of_tuple(loc) ==
    IF ~loc.ok THEN loc
    ELSE canonical_result(row_index(loc.val.e[1]), column_index(loc.val.e[2]))

get_canonical_form(location) == canonical_of_tuple(location_tuple(location))

\* the volume of stock solution is concentration * volume of the base over
\* the concentration of the dilution (lines 208-210 the other way round)
get_instructions_string_upside_down(self, what) ==
    LET shown(q, unit, small) ==
            IF q[1] > q[2] THEN [number |-> q, unit |-> unit]
            ELSE [number |-> <<q[1] * 1000, q[2]>>, unit |-> small]
        weight == <<self.concentration * self.volume * what.molecular_weight, 1000>>
        reagent_volume == <<weight[1], weight[2] * what.density>>
        required_stock_volume == <<what.concentration * self.volume, self.concentration>>
        minus(volume, q) == <<volume * q[2] - q[1], q[2]>>
    IN  IF what.cls = "Reagent" /\ what.reagent_type = "SOLID"
        THEN [form |-> "Add", added |-> shown(weight, "g", "mg"),
              solvent |-> shown(<<self.volume, 1>>, "mL", "uL")]
        ELSE IF what.cls = "Reagent"
        THEN [form |-> "Add", added |-> shown(reagent_volume, "mL", "uL"),
              solvent |-> shown(minus(self.volume, reagent_volume), "mL", "uL")]
        ELSE [form |-> "Combine", added |-> shown(required_stock_volume, "mL", "uL"),
              solvent |-> shown(minus(self.volume, required_stock_volume), "mL", "uL")]

\* lines 161-214: the recipe of the stock solution `self`, made from the
\* object `what`.  A quantity is a fraction <<n, d>>, d > 0, of grams or
\* millilitres; a recipe gives, for what is added and for the solvent, the
\* number that is printed and its unit (the number is 1000 times the
\* quantity when the unit is the small one; the rounding of the format to
\* three decimals or one is left out)
get_instructions_string(self, what) ==
    LET shown(q, unit, small) ==
            IF q[1] > q[2] THEN [number |-> q, unit |-> unit]
            ELSE [number |-> <<q[1] * 1000, q[2]>>, unit |-> small]
        weight == <<self.concentration * self.volume * what.molecular_weight, 1000>>
        reagent_volume == <<weight[1], weight[2] * what.density>>
        required_stock_volume == <<self.concentration * self.volume, what.concentration>>
        minus(volume, q) == <<volume * q[2] - q[1], q[2]>>
    IN  IF what.cls = "Reagent" /\ what.reagent_type = "SOLID"
        THEN [form |-> "Add", added |-> shown(weight, "g", "mg"),
              solvent |-> shown(<<self.volume, 1>>, "mL", "uL")]
        ELSE IF what.cls = "Reagent"
        THEN [form |-> "Add", added |-> shown(reagent_volume, "mL", "uL"),
              solvent |-> shown(minus(self.volume, reagent_volume), "mL", "uL")]
        ELSE [form |-> "Combine", added |-> shown(required_stock_volume, "mL", "uL"),
              solvent |-> shown(minus(self.volume, required_stock_volume), "mL", "uL")]

---------------------------------------------------------------------------
(* The objects of a session: what the scripts construct before they        *)
(* dispense (src/Example.py, lines 5-32).                                  *)

water == Solvent("water", StrV(<<"w">>), IntV(10)).val
sulfate == create_solid("sulfate", StrV(<<"s">>), IntV(142)).val
amine == create_liquid("amine", StrV(<<"a">>), IntV(101), IntV(1)).val
sulfate_2M == StockSolution("sulfate_2M", sulfate, IntV(2), water, IntV(10)).val
amine_1M == StockSolution("amine_1M", amine, IntV(1), water, IntV(10)).val
NoneObject == [cls |-> "NoneType", id |-> "None"]

\* a second Reagent object with the fields of sulfate, and a chain of
\* dilutions of it as in Example2.py: 3 M, 2 M from the 3 M, 1 M from the 2 M;
\* and a solid of 100 g/mol
ChainObjects ==
    LET sulfate_twin == create_solid("sulfate_twin", StrV(<<"s">>), IntV(142)).val
        twin_3M == StockSolution("twin_3M", sulfate_twin, IntV(3), water, IntV(10)).val
        twin_2M == StockSolution("twin_2M", twin_3M, IntV(2), water, IntV(10)).val
        twin_1M == StockSolution("twin_1M", twin_2M, FloatV(1), water, IntV(10)).val
        salt == create_solid("salt", StrV(<<"n">>), IntV(100)).val
    IN  {sulfate_twin, twin_3M, twin_2M, twin_1M, salt}

Objects == {water, sulfate, amine, sulfate_2M, amine_1M, NoneObject} \cup ChainObjects

\* the object a reference refers to
obj(ref) == CHOOSE o \in Objects : o.id = ref

\* isinstance(what, (StockSolution, Solvent))
is_source(what) == obj(what).cls \in {"StockSolution", "Solvent"}

---------------------------------------------------------------------------
(* Plate.add_custom.  A dict is DictV(e), e the list of its <<key, value>> *)
(* items in insertion order.  An operation is a function of the plate's    *)
(* state to its state after the call, with the exception it raised and     *)
(* whether it printed the overflow warning.                                *)

DictV(e) == [t |-> "dict", e |-> e]

\* the exception comes after line 489
raises_after_append(r) ==
    [reagents |-> reagents, volumes |-> volumes, moles |-> moles,
     instructions |-> Append(instructions, <<"water", <<>>>>),
     volumes_used |-> volumes_used,
     raised |-> Exception(r), warned |-> FALSE]

\* the call raises r having written nothing
raises(r) ==
    [reagents |-> reagents, volumes |-> volumes, moles |-> moles,
     instructions |-> instructions, volumes_used |-> volumes_used,
     raised |-> Exception(r), warned |-> FALSE]

\* the sign of a volume is not looked at
item_error_of_any_volume(k, v) ==
    IF k.t = "tuple" /\ Len(k.e) # 2
    THEN "locations in dispense map must have two coordinates"
    ELSE IF k.t = "tuple" /\ \E j \in 1..2 : k.e[j].t \notin {"int", "str"}
    THEN "invalid location in dispense map"
    ELSE IF k.t = "str" /\ count(k.s, ":") # 1
    THEN "locations should have one colon"
    ELSE IF k.t \notin {"tuple", "str"}
    THEN "invalid location in dispense map"
    ELSE IF ~is_number(v) \/ FALSE
    THEN "invalid volume in dispense map"
    ELSE ""

\* a volume of 0 is refused too (v <= 0.0 at line 476)
item_error_of_no_volume(k, v) ==
    IF k.t = "tuple" /\ Len(k.e) # 2
    THEN "locations in dispense map must have two coordinates"
    ELSE IF k.t = "tuple" /\ \E j \in 1..2 : k.e[j].t \notin {"int", "str"}
    THEN "invalid location in dispense map"
    ELSE IF k.t = "str" /\ count(k.s, ":") # 1
    THEN "locations should have one colon"
    ELSE IF k.t \notin {"tuple", "str"}
    THEN "invalid location in dispense map"
    ELSE IF ~is_number(v) \/ number_value(v) <= 0
    THEN "invalid volume in dispense map"
    ELSE ""

\* lines 461-477: the checks of one item of the dispense map
item_error(k, v) ==
    IF k.t = "tuple" /\ Len(k.e) # 2
    THEN "locations in dispense map must have two coordinates"
    ELSE IF k.t = "tuple" /\ \E j \in 1..2 : k.e[j].t \notin {"int", "str"}
    THEN "invalid location in dispense map"
    ELSE IF k.t = "str" /\ count(k.s, ":") # 1
    THEN "locations should have one colon"
    ELSE IF k.t \notin {"tuple", "str"}
    THEN "invalid location in dispense map"
    ELSE IF ~is_number(v) \/ number_value(v) < 0
    THEN "invalid volume in dispense map"
    ELSE ""

\* line 460: the error of the first item that has one
RECURSIVE items_error(_)
items_error(items) ==
    IF items = <<>> THEN ""
    ELSE IF item_error(Head(items)[1], Head(items)[2]) # ""
    THEN item_error(Head(items)[1], Head(items)[2])
    ELSE items_error(Tail(items))

\* lines 447-477: the checks of the arguments ("": they pass)
arguments_error(what, dispense_map) ==
    IF ~is_source(what) THEN "expected a StockSolution or Solvent"
    ELSE IF dispense_map = NoneV THEN "must provide a dispense map"
    ELSE IF dispense_map.t # "dict" THEN "expected a dict for the dispense_map"
    ELSE IF Len(dispense_map.e) = 0 THEN "must dispense at least one thing"
    ELSE items_error(dispense_map.e)

\* no check at lines 484-485
with_item_unchecked(done, canonical_location, volume) ==
    IF ~canonical_location.ok THEN canonical_location
    ELSE Ok(Append(done, <<canonical_location.val, number_value(volume)>>))

\* lines 484-486: the canonical map with one more item
with_item(done, canonical_location, volume) ==
    IF ~canonical_location.ok THEN canonical_location
    ELSE IF \E k \in 1..Len(done) : done[k][1] = canonical_location.val
    THEN Raise("ValueError", "cannot add twice to location")
    ELSE Ok(Append(done, <<canonical_location.val, number_value(volume)>>))

\* lines 480-486: the canonical dispense map, the list of its
\* <<<<row, column>>, volume>> items in insertion order
RECURSIVE canonical_items(_, _)
canonical_items(items, done) ==
    IF items = <<>> \/ ~done.ok THEN done
    ELSE canonical_items(
             Tail(items),
             with_item(done.val, get_canonical_form(Head(items)[1]), Head(items)[2]))

canonical_dispense_map(dispense_map) == canonical_items(dispense_map.e, Ok(<<>>))

\* the volume a canonical map gives a well (0: the well is not in the map)
map_volume(cmap, w) ==
    IF \E k \in 1..Len(cmap) : cmap[k][1] = w
    THEN cmap[CHOOSE k \in 1..Len(cmap) : cmap[k][1] = w][2]
    ELSE 0

\* assignment in place of accumulation at lines 492-493
updated_volumes_assigned(cmap) ==
    [w \in DOMAIN volumes |->
        IF \E k \in 1..Len(cmap) : cmap[k][1] = w THEN map_volume(cmap, w)
        ELSE volumes[w]]

\* lines 492-493: self.volumes[row, column] += volume
updated_volumes(cmap) == [w \in DOMAIN volumes |-> volumes[w] + map_volume(cmap, w)]

\* line 496: what is added to the entry of `what`: the volume the loop of
\* lines 492-495 ended on, times the number of wells
used_volume(cmap) == cmap[Len(cmap)][2] * Len(cmap)

\* lines 494-495: the entry of `what` is created at 0.0 if there is none
with_entry(used, what) ==
    IF \E k \in 1..Len(used) : used[k][1] = what THEN used
    ELSE Append(used, <<what, 0>>)

\* self.volumes_used[what] += volume
add_used(used, what, volume) ==
    [k \in 1..Len(used) |->
        IF used[k][1] = what THEN <<what, used[k][2] + volume>> ELSE used[k]]

\* lines 494-496
updated_volumes_used(what, cmap) ==
    add_used(with_entry(volumes_used, what), what, used_volume(cmap))

\* np.max(grid)
grid_max(grid) ==
    CHOOSE v \in {grid[w] : w \in DOMAIN grid} : \A w \in DOMAIN grid : grid[w] <= v

\* only the wells that the call has added to are looked at
overflow_warning_of_touched(new_volumes) ==
    \E w \in DOMAIN new_volumes :
        new_volumes[w] # volumes[w] /\ new_volumes[w] > max_volume_per_well

\* >= in place of > at line 500
overflow_warning_at_limit(new_volumes) == grid_max(new_volumes) >= max_volume_per_well

\* lines 499-500: whether the warning is printed, given the new volumes
overflow_warning(new_volumes) == grid_max(new_volumes) > max_volume_per_well

\* the reagent is registered at every dispense of a stock solution
updated_reagents_again(what) ==
    IF obj(what).cls # "StockSolution" THEN reagents
    ELSE Append(reagents, obj(what).reagent)

\* lines 509-511: the reagent of a stock solution is registered
updated_reagents(what) ==
    IF obj(what).cls # "StockSolution" THEN reagents
    ELSE IF contains(reagents, obj(what).reagent) THEN reagents
    ELSE Append(reagents, obj(what).reagent)

\* the blank slab replaces the slabs there are (line 515 taken at line 518)
with_slab_alone(new_reagents) ==
    IF Len(new_reagents) > Len(reagents)
    THEN <<[w \in DOMAIN volumes |-> 0]>>
    ELSE moles

\* lines 512-518: a blank slab is added for a new reagent
with_slab(new_reagents) ==
    IF Len(new_reagents) > Len(reagents)
    THEN Append(moles, [w \in DOMAIN volumes |-> 0])
    ELSE moles

\* the volume in place of the moles at line 524
add_moles_of_volume(slabs, reagent_index, cmap, concentration) ==
    [k \in 1..Len(slabs) |->
        IF k = reagent_index
        THEN [w \in DOMAIN volumes |-> slabs[k][w] + map_volume(cmap, w)]
        ELSE slabs[k]]

\* lines 523-525: self.moles[reagent_index, row, column] += extra_moles
add_moles(slabs, reagent_index, cmap, concentration) ==
    [k \in 1..Len(slabs) |->
        IF k = reagent_index
        THEN [w \in DOMAIN volumes |-> slabs[k][w] + map_volume(cmap, w) * concentration]
        ELSE slabs[k]]

\* a blank slab is added for a Solvent
updated_moles_with_slab_for_solvent(what, cmap) ==
    IF obj(what).cls # "StockSolution"
    THEN Append(moles, [w \in DOMAIN volumes |-> 0])
    ELSE add_moles(with_slab(updated_reagents(what)),
                   index(updated_reagents(what), obj(what).reagent) + 1,
                   cmap, obj(what).concentration)

\* lines 506-525: the micromoles of the reagent of a stock solution
updated_moles(what, cmap) ==
    IF obj(what).cls # "StockSolution" THEN moles
    ELSE add_moles(with_slab(updated_reagents(what)),
                   index(updated_reagents(what), obj(what).reagent) + 1,
                   cmap, obj(what).concentration)

\* the entry is put at the front of the log at line 489
written_at_front(what, cmap, new_volumes) ==
    [reagents |-> updated_reagents(what),
     volumes |-> new_volumes,
     moles |-> updated_moles(what, cmap),
     instructions |-> <<<<what, cmap>>>> \o instructions,
     volumes_used |-> updated_volumes_used(what, cmap),
     raised |-> NotRaised,
     warned |-> overflow_warning(new_volumes)]

\* the state after the writes, given the new volumes
written(what, cmap, new_volumes) ==
    [reagents |-> updated_reagents(what),
     volumes |-> new_volumes,
     moles |-> updated_moles(what, cmap),
     instructions |-> Append(instructions, <<what, cmap>>),
     volumes_used |-> updated_volumes_used(what, cmap),
     raised |-> NotRaised,
     warned |-> overflow_warning(new_volumes)]

\* lines 488-525: the writes of add_custom
dispense(what, cmap) == written(what, cmap, updated_volumes(cmap))

\* lines 479-525: the canonical map raises, or is dispensed
dispense_canonical(what, cmap) ==
    IF ~cmap.ok THEN raises(cmap) ELSE dispense(what, cmap.val)

\* lines 447-486: the checks of the arguments, then the canonical map
checked_canonical_map(dispense_map, error) ==
    IF error # "" THEN Raise("ValueError", error)
    ELSE canonical_dispense_map(dispense_map)

add_custom(what, dispense_map) ==
    dispense_canonical(
        what,
        checked_canonical_map(dispense_map, arguments_error(what, dispense_map)))

---------------------------------------------------------------------------
(* The convenience operations: each builds a dispense map and ends in      *)
(* add_custom.                                                             *)

\* the concatenation of the lists f[1], ..., f[n]
RECURSIVE concat(_, _)
concat(f, n) == IF n = 0 THEN <<>> ELSE concat(f, n - 1) \o f[n]

\* the dispense is not written to the log
add_custom_map_unlogged(what, dispense_map) ==
    IF ~dispense_map.ok THEN raises(dispense_map)
    ELSE [add_custom(what, dispense_map.val) EXCEPT !.instructions = instructions]

\* add_custom(what, dispense_map) unless building the map raised
add_custom_map(what, dispense_map) ==
    IF ~dispense_map.ok THEN raises(dispense_map)
    ELSE add_custom(what, dispense_map.val)

\* the 1-indexed location tuple of a well
location_of(w) == TupV(<<IntV(w[1] + 1), IntV(w[2] + 1)>>)

\* lines 540-544 (and 580-584): the corners of a block make sense
block_of_corners(upper_left2, bottom_right2) ==
    IF ~upper_left2.ok THEN upper_left2
    ELSE IF ~bottom_right2.ok THEN bottom_right2
    ELSE IF \/ upper_left2.val[1] > bottom_right2.val[1]
            \/ upper_left2.val[2] > bottom_right2.val[2]
    THEN Raise("ValueError", "invalid block")
    ELSE Ok([first_row |-> upper_left2.val[1],
             first_column |-> upper_left2.val[2],
             last_row |-> bottom_right2.val[1],
             last_column |-> bottom_right2.val[2]])

\* lines 537-544 (and 577-584)
block_corners(upper_left, bottom_right) ==
    block_of_corners(get_canonical_form(upper_left), get_canonical_form(bottom_right))

\* the last column of the block is left out
block_wells_short_of_last_column(b) ==
    concat([i \in 1..(b.last_row - b.first_row + 1) |->
               [j \in 1..(b.last_column - b.first_column) |->
                   <<b.first_row + i - 1, b.first_column + j - 1>>]],
           b.last_row - b.first_row + 1)

\* the wells of a block, row by row: the order of the loops at lines 548-549
block_wells(b) ==
    concat([i \in 1..(b.last_row - b.first_row + 1) |->
               [j \in 1..(b.last_column - b.first_column + 1) |->
                   <<b.first_row + i - 1, b.first_column + j - 1>>]],
           b.last_row - b.first_row + 1)

\* lines 547-551: the map of a block
block_map(b, how_much) ==
    IF ~b.ok THEN b
    ELSE Ok(DictV([k \in 1..Len(block_wells(b.val)) |->
                      <<location_of(block_wells(b.val)[k]), how_much>>]))

add_to_block(what, how_much, upper_left, bottom_right) ==
    add_custom_map(what, block_map(block_corners(upper_left, bottom_right), how_much))

\* lines 587-597: the items of the fill map; an item of a negative volume
\* is a well over the target
fill_items(wells, target_volume) ==
    [k \in 1..Len(wells) |->
        <<location_of(wells[k]),
          FloatV(number_value(target_volume) - volumes[wells[k]])>>]

\* line 594: the items of a positive volume, in order
RECURSIVE positive_items(_)
positive_items(items) ==
    IF items = <<>> THEN <<>>
    ELSE (IF number_value(Head(items)[2]) > 0 THEN <<Head(items)>> ELSE <<>>)
         \o positive_items(Tail(items))

\* the wells over the target are passed over
fill_map_passing_over(items) == Ok(DictV(positive_items(items)))

\* lines 594-597
fill_map_of_items(items) ==
    IF \E k \in 1..Len(items) : number_value(items[k][2]) < 0
    THEN Raise("ValueError", "negative volume would be needed")
    ELSE Ok(DictV(positive_items(items)))

\* lines 566-575: the checks of fill_block_up_to_volume ("": they pass)
fill_error(what, target_volume) ==
    IF ~is_source(what) THEN "must add StockSolution or Solvent"
    ELSE IF number_value(target_volume) <= 0 THEN "not a valid target volume"
    ELSE IF number_value(target_volume) > max_volume_per_well
    THEN "exceeds max allowed volume"
    ELSE ""

\* lines 566-597
fill_map(error, b, target_volume) ==
    IF error # "" THEN Raise("ValueError", error)
    ELSE IF ~b.ok THEN b
    ELSE fill_map_of_items(fill_items(block_wells(b.val), target_volume))

fill_block_up_to_volume(what, target_volume, upper_left, bottom_right) ==
    add_custom_map(what,
                   fill_map(fill_error(what, target_volume),
                            block_corners(upper_left, bottom_right),
                            target_volume))

\* the endpoint is left out: the step is (hi - lo) / n
linspace_to_open_end(lo, hi, n) == [k \in 1..n |-> lo + ((k - 1) * (hi - lo)) \div n]

\* np.linspace(lo, hi, n), for n >= 2; the model dispenses gradients whose
\* volumes are whole numbers, where n - 1 divides (k - 1) * (hi - lo)
linspace(lo, hi, n) == [k \in 1..n |-> lo + ((k - 1) * (hi - lo)) \div (n - 1)]

reversed(list) == [k \in 1..Len(list) |-> list[Len(list) + 1 - k]]

\* lines 636-647 (and 707-718): the checks of the volumes and the order
gradient_error(lo_volume, hi_volume, order) ==
    IF number_value(lo_volume) < 0 \/ number_value(hi_volume) < 0
    THEN "negative volumes not allowed"
    ELSE IF number_value(hi_volume) > max_volume_per_well
    THEN "maximum volume exceeds the limit for this plate"
    ELSE IF order # "forwards" /\ order # "backwards"
    THEN "unknown iteration order"
    ELSE ""

\* lines 650-657 (and 721-728): the locations of a gradient, in order: the
\* 1-indexed positions first..last of column `fixed` (line = "column") or of
\* row `fixed` (line = "row")
gradient_locations(first, last, line, fixed, order) ==
    IF order = "backwards"
    THEN reversed([k \in 1..(last - first + 1) |->
                      IF line = "column"
                      THEN TupV(<<IntV(first + k - 1), IntV(fixed)>>)
                      ELSE TupV(<<IntV(fixed), IntV(first + k - 1)>>)])
    ELSE [k \in 1..(last - first + 1) |->
             IF line = "column"
             THEN TupV(<<IntV(first + k - 1), IntV(fixed)>>)
             ELSE TupV(<<IntV(fixed), IntV(first + k - 1)>>)]

\* lines 658-664 (and 729-735): the dispense map of the locations
gradient_map(locations, lo_volume, hi_volume) ==
    DictV([k \in 1..Len(locations) |->
              <<locations[k],
                FloatV(linspace(number_value(lo_volume), number_value(hi_volume),
                                Len(locations))[k])>>])

\* lines 622-664
column_gradient(what, top_position2, bottom_position2, lo_volume, hi_volume, order) ==
    IF ~is_source(what)
    THEN Raise("ValueError", "must add StockSolution or Solvent")
    ELSE IF ~top_position2.ok THEN top_position2
    ELSE IF ~bottom_position2.ok THEN bottom_position2
    ELSE IF top_position2.val[2] # bottom_position2.val[2]
    THEN Raise("ValueError", "positions must belong to same column")
    ELSE IF top_position2.val[1] >= bottom_position2.val[1]
    THEN Raise("ValueError", "positions in wrong order or are the same")
    ELSE IF gradient_error(lo_volume, hi_volume, order) # ""
    THEN Raise("ValueError", gradient_error(lo_volume, hi_volume, order))
    ELSE Ok(gradient_map(gradient_locations(top_position2.val[1] + 1,
                                            bottom_position2.val[1] + 1,
                                            "column", top_position2.val[2] + 1,
                                            order),
                         lo_volume, hi_volume))

add_gradient_to_column(what, top_position, bottom_position, lo_volume, hi_volume, order) ==
    add_custom_map(what,
                   column_gradient(what,
                                   get_canonical_form(top_position),
                                   get_canonical_form(bottom_position),
                                   lo_volume, hi_volume, order))

\* lines 689-735
row_gradient(what, left_position2, right_position2, lo_volume, hi_volume, order) ==
    IF ~is_source(what)
    THEN Raise("ValueError", "must add StockSolution or Solvent")
    ELSE IF ~left_position2.ok THEN left_position2
    ELSE IF ~right_position2.ok THEN right_position2
    ELSE IF left_position2.val[1] # right_position2.val[1]
    THEN Raise("ValueError", "positions must belong to same row")
    ELSE IF left_position2.val[2] >= right_position2.val[2]
    THEN Raise("ValueError", "positions in wrong order or are the same")
    ELSE IF gradient_error(lo_volume, hi_volume, order) # ""
    THEN Raise("ValueError", gradient_error(lo_volume, hi_volume, order))
    ELSE Ok(gradient_map(gradient_locations(left_position2.val[2] + 1,
                                            right_position2.val[2] + 1,
                                            "row", left_position2.val[1] + 1,
                                            order),
                         lo_volume, hi_volume))

add_gradient_to_row(what, left_position, right_position, lo_volume, hi_volume, order) ==
    add_custom_map(what,
                   row_gradient(what,
                                get_canonical_form(left_position),
                                get_canonical_form(right_position),
                                lo_volume, hi_volume, order))

\* lines 764-769 (and 824-829): a selection given as a string becomes an int
selection_of_string(selection, names) ==
    IF selection.t # "str" THEN Ok(selection)
    ELSE IF contains(names, selection.s) THEN Ok(IntV(index(names, selection.s) + 1))
    ELSE IF ~int_parses(selection.s) THEN Raise("ValueError", "invalid location")
    ELSE Ok(IntV(int_of(selection.s)))

\* a name is resolved to its 0-indexed place in the names
selection_of_item_zero_indexed(item, whole, names, length) ==
    IF item.t = "str" /\ contains(names, item.s) THEN Ok(index(names, item.s))
    ELSE IF item.t = "int" /\ item.i >= 1 /\ item.i <= length THEN Ok(item.i)
    ELSE Raise("ValueError", "invalid location")

\* lines 782-792 (and 842-852): one item of a selection list to a 1-indexed
\* number; `whole` is the list itself, which is what is_integer is given
selection_of_item(item, whole, names, length) ==
    IF item.t = "str"
    THEN IF contains(names, item.s) THEN Ok(index(names, item.s) + 1)
         ELSE IF ~is_integer(whole).ok THEN is_integer(whole)
         ELSE IF ~is_integer(whole).val
         THEN Raise("ValueError", "invalid row or column")
         ELSE IF ~int_parses(item.s) THEN Raise("ValueError", "invalid literal for int()")
         ELSE Ok(int_of(item.s))
    ELSE IF item.t = "int"
    THEN IF item.i < 1 \/ item.i > length
         THEN Raise("ValueError", "row or column out of range")
         ELSE Ok(item.i)
    ELSE Raise("ValueError", "invalid location")

\* line 793: rows2.append(row), unless the item raised
appended(done, item) == IF ~item.ok THEN item ELSE Ok(Append(done.val, item.val))

\* lines 780-793 (and 840-853): the items of a selection list
RECURSIVE selection_of_list(_, _, _, _, _)
selection_of_list(items, whole, names, length, done) ==
    IF items = <<>> \/ ~done.ok THEN done
    ELSE selection_of_list(
             Tail(items), whole, names, length,
             appended(done, selection_of_item(Head(items), whole, names, length)))

\* lines 754-761 (and 814-821): the checks of what, how_much and the selection
selection_error(what, how_much, selection) ==
    IF ~is_source(what) THEN "must add StockSolution or Solvent"
    ELSE IF ~is_number(how_much) \/ number_value(how_much) <= 0
    THEN "invalid amount of stuff"
    ELSE IF selection = NoneV THEN "must specify a destination"
    ELSE ""

\* lines 794-799: the map of a list of rows
rows_list_map(rows2, how_much) ==
    IF ~rows2.ok THEN rows2
    ELSE IF has_duplicates(rows2.val)
    THEN Raise("ValueError", "check for duplicates in locations")
    ELSE Ok(DictV(concat([column \in 1..n_columns |->
                             [k \in 1..Len(rows2.val) |->
                                 <<TupV(<<IntV(rows2.val[k]), IntV(column)>>),
                                   how_much>>]],
                         n_columns)))

\* lines 772-801: the map of the rows
rows_map(rows, rows1, how_much) ==
    IF ~rows1.ok THEN rows1
    ELSE IF rows1.val.t = "int"
    THEN IF rows1.val.i < 1 \/ rows1.val.i > n_rows
         THEN Raise("ValueError", "row out of range")
         ELSE Ok(DictV([column \in 1..n_columns |->
                           <<TupV(<<rows1.val, IntV(column)>>), how_much>>]))
    ELSE IF rows.t = "list"
    THEN rows_list_map(selection_of_list(rows.e, rows, row_names, n_rows, Ok(<<>>)),
                       how_much)
    ELSE Raise("ValueError", "unexpected input for destination")

\* lines 754-801
checked_rows_map(error, rows, how_much) ==
    IF error # "" THEN Raise("ValueError", error)
    ELSE rows_map(rows, selection_of_string(rows, row_names), how_much)

add_to_rows(what, how_much, rows) ==
    add_custom_map(what,
                   checked_rows_map(selection_error(what, how_much, rows),
                                    rows, how_much))

\* lines 854-859: the map of a list of columns
columns_list_map(columns2, how_much) ==
    IF ~columns2.ok THEN columns2
    ELSE IF has_duplicates(columns2.val)
    THEN Raise("ValueError", "check for duplicates in locations")
    ELSE Ok(DictV(concat([row \in 1..n_rows |->
                             [k \in 1..Len(columns2.val) |->
                                 <<TupV(<<IntV(row), IntV(columns2.val[k])>>),
                                   how_much>>]],
                         n_rows)))

\* lines 832-861: the map of the columns
columns_map(columns, columns1, how_much) ==
    IF ~columns1.ok THEN columns1
    ELSE IF columns1.val.t = "int"
    THEN IF columns1.val.i < 1 \/ columns1.val.i > n_columns
         THEN Raise("ValueError", "column out of range")
         ELSE Ok(DictV([row \in 1..n_rows |->
                           <<TupV(<<IntV(row), columns1.val>>), how_much>>]))
    ELSE IF columns.t = "list"
    THEN columns_list_map(
             selection_of_list(columns.e, columns, column_names, n_columns, Ok(<<>>)),
             how_much)
    ELSE Raise("ValueError", "unexpected input for destination")

\* lines 814-861
checked_columns_map(error, columns, how_much) ==
    IF error # "" THEN Raise("ValueError", error)
    ELSE columns_map(columns, selection_of_string(columns, column_names), how_much)

add_to_columns(what, how_much, columns) ==
    add_custom_map(what,
                   checked_columns_map(selection_error(what, how_much, columns),
                                       columns, how_much))

---------------------------------------------------------------------------
(* The calls a session makes on its plate.  A call ends either returning   *)
(* or raising; the caller then goes on to its next call (Return).          *)

\* the plate's log may grow to MaxLog instructions
MaxLog == 2

\* the call c ends in the state `post`
Do(c, post) ==
    /\ call = NoCall
    /\ Len(instructions) < MaxLog
    /\ call' = c
    /\ reagents' = post.reagents
    /\ volumes' = post.volumes
    /\ moles' = post.moles
    /\ instructions' = post.instructions
    /\ volumes_used' = post.volumes_used
    /\ raised' = post.raised
    /\ warned' = post.warned
    /\ returned' = NoneV
    /\ calls_returned' = calls_returned + (IF post.raised = NotRaised THEN 1 ELSE 0)
    /\ UNCHANGED <<plate_vars, stock_solutions>>

Return ==
    /\ call # NoCall
    /\ call' = NoCall
    /\ raised' = NotRaised
    /\ returned' = NoneV
    /\ warned' = FALSE
    /\ UNCHANGED <<plate_vars, state_vars, calls_returned, stock_solutions>>

\* a string of the model from a TLA+ tuple of characters
Str(s) == StrV(s)
Loc(row, column) == TupV(<<row, column>>)

\* what is dispensed: two stock solutions and a solvent; and a Reagent,
\* passed by mistake
Sources == {"sulfate_2M", "amine_1M", "water"}
NotSource == "sulfate"
Whats == Sources \cup {NotSource}

\* the items of the dispense maps that add_custom accepts
GoodItems ==
    { <<Loc(IntV(1), IntV(1)), IntV(1)>>,
      <<Str(<<"A", ":", "1">>), FloatV(2)>>,
      <<Loc(Str(<<"B">>), IntV(2)), IntV(2)>> }

\* and those it rejects
BadItems ==
    { <<Loc(IntV(3), IntV(1)), IntV(1)>>,
      <<Loc(IntV(1), IntV(1)), IntV(0 - 1)>>,
      <<Str(<<"A", "1">>), IntV(1)>>,
      <<Loc(Str(<<"a">>), FloatV(2)), IntV(1)>> }

Items == GoodItems \cup BadItems

\* the dicts of at most two items: a dict holds a key once
DispenseMaps ==
    {NoneV, DictV(<<>>)}
    \cup {DictV(<<i>>) : i \in Items}
    \cup {DictV(p) : p \in {q \in GoodItems \X Items : q[1][1] # q[2][1]}}

\* <<what, dispense_map>>
\* the last: a map of one well and no volume
AddCustomArguments ==
    (Sources \X DispenseMaps)
    \cup {<<NotSource, DictV(<<i>>)>> : i \in GoodItems}
    \cup ({"sulfate_2M", "water"} \X {DictV(<<<<Loc(IntV(1), IntV(1)), IntV(0)>>>>)})
    \cup ({"water"} \X {DictV(<<<<Str(<<"B", ":", "1">>), IntV(3)>>>>)})

AddCustom ==
    \E a \in AddCustomArguments :
        Do([op |-> "add_custom", what |-> a[1], dispense_map |-> a[2]],
           add_custom(a[1], a[2]))

\* what the convenience operations dispense
BlockSources == {"sulfate_2M", "water"}

\* <<upper_left, bottom_right>>: three blocks; corners in the wrong order
\* (both ways, then the columns only) or off the plate
GoodCorners ==
    { <<Loc(IntV(1), IntV(1)), Loc(IntV(1), IntV(1))>>,
      <<Loc(IntV(1), IntV(1)), Str(<<"B", ":", "2">>)>>,
      <<Str(<<"B", ":", "2">>), Str(<<"B", ":", "2">>)>> }

BadCorners ==
    { <<Str(<<"B", ":", "2">>), Loc(IntV(1), IntV(1))>>,
      <<Loc(IntV(1), IntV(2)), Str(<<"B", ":", "1">>)>>,
      <<Loc(IntV(3), IntV(1)), Loc(IntV(1), IntV(1))>>,
      <<Loc(IntV(1), IntV(1)), Loc(IntV(3), IntV(1))>> }

\* <<what, how_much, <<upper_left, bottom_right>>>>
AddToBlockArguments ==
    (BlockSources \X {IntV(1)} \X GoodCorners)
    \cup ({"water"} \X {IntV(1)} \X BadCorners)
    \cup ({"water"} \X {IntV(0 - 1)} \X GoodCorners)
    \cup ({NotSource} \X {IntV(1)} \X GoodCorners)
    \cup ({"sulfate_2M"} \X {IntV(0)} \X {<<Loc(IntV(1), IntV(1)), Str(<<"B", ":", "2">>)>>})

AddToBlock ==
    \E a \in AddToBlockArguments :
        Do([op |-> "add_to_block", what |-> a[1], how_much |-> a[2],
            upper_left |-> a[3][1], bottom_right |-> a[3][2]],
           add_to_block(a[1], a[2], a[3][1], a[3][2]))

\* <<what, target_volume, <<upper_left, bottom_right>>>>
FillArguments ==
    (BlockSources \X {IntV(1), FloatV(2)} \X GoodCorners)
    \cup ({"water"} \X {IntV(2)} \X BadCorners)
    \cup ({"water"} \X {IntV(0), IntV(3), IntV(0 - 1)} \X GoodCorners)
    \cup ({NotSource} \X {IntV(2)} \X GoodCorners)

FillBlockUpToVolume ==
    \E a \in FillArguments :
        Do([op |-> "fill_block_up_to_volume", what |-> a[1],
            target_volume |-> a[2],
            upper_left |-> a[3][1], bottom_right |-> a[3][2]],
           fill_block_up_to_volume(a[1], a[2], a[3][1], a[3][2]))

\* <<lo_volume, hi_volume>>
GoodVolumes == { <<IntV(1), IntV(2)>> }
BadVolumes == { <<IntV(0 - 1), IntV(1)>>, <<IntV(1), IntV(3)>>, <<IntV(1), IntV(0 - 1)>> }

GoodOrders == {"forwards", "backwards"}
BadOrders == {"sideways"}

\* <<top_position, bottom_position>>
GoodColumnEnds == { <<Str(<<"A", ":", "2">>), Loc(IntV(2), IntV(2))>> }

BadColumnEnds ==
    { <<Loc(IntV(2), IntV(2)), Str(<<"A", ":", "2">>)>>,
      <<Str(<<"A", ":", "2">>), Loc(IntV(2), IntV(1))>>,
      <<Str(<<"A", ":", "2">>), Loc(IntV(3), IntV(2))>> }

\* <<lo_volume, hi_volume>> of the gradients on a plate of four rows and four
\* columns
LongVolumes == { <<IntV(10), IntV(40)>>, <<FloatV(40), IntV(10)>>, <<IntV(70), IntV(10)>> }

\* segments of four and of three wells
LongColumnEnds ==
    { <<Str(<<"1", ":", "3">>), Loc(IntV(4), IntV(3))>>,
      <<Loc(IntV(2), Str(<<"4">>)), Loc(Str(<<"4">>), IntV(4))>> }

\* <<what, <<top_position, bottom_position>>, <<lo_volume, hi_volume>>, order>>
ColumnGradientArguments ==
    (BlockSources \X GoodColumnEnds \X GoodVolumes \X GoodOrders)
    \cup ({"sulfate_2M"} \X LongColumnEnds \X LongVolumes \X GoodOrders)
    \cup ({"water"} \X BadColumnEnds \X GoodVolumes \X GoodOrders)
    \cup ({"water"} \X GoodColumnEnds \X BadVolumes \X GoodOrders)
    \cup ({"water"} \X GoodColumnEnds \X GoodVolumes \X BadOrders)
    \cup ({NotSource} \X GoodColumnEnds \X GoodVolumes \X GoodOrders)
    \cup ({"water"} \X GoodColumnEnds \X {<<IntV(0), IntV(2)>>} \X {"forwards"})

AddGradientToColumn ==
    \E a \in ColumnGradientArguments :
        Do([op |-> "add_gradient_to_column", what |-> a[1],
            top_position |-> a[2][1], bottom_position |-> a[2][2],
            lo_volume |-> a[3][1], hi_volume |-> a[3][2], order |-> a[4]],
           add_gradient_to_column(a[1], a[2][1], a[2][2], a[3][1], a[3][2], a[4]))

\* <<left_position, right_position>>
GoodRowEnds == { <<Loc(Str(<<"B">>), IntV(1)), Loc(IntV(2), Str(<<"2">>))>> }

BadRowEnds ==
    { <<Loc(IntV(2), Str(<<"2">>)), Loc(Str(<<"B">>), IntV(1))>>,
      <<Loc(Str(<<"B">>), IntV(1)), Loc(IntV(1), IntV(2))>>,
      <<Loc(Str(<<"B">>), IntV(0)), Loc(IntV(2), IntV(2))>> }

\* segments of four and of three wells
LongRowEnds ==
    { <<Loc(IntV(3), IntV(1)), Str(<<"3", ":", "4">>)>>,
      <<Loc(Str(<<"4">>), IntV(1)), Loc(IntV(4), Str(<<"3">>))>> }

\* <<what, <<left_position, right_position>>, <<lo_volume, hi_volume>>, order>>
RowGradientArguments ==
    (BlockSources \X GoodRowEnds \X GoodVolumes \X GoodOrders)
    \cup ({"sulfate_2M"} \X LongRowEnds \X LongVolumes \X GoodOrders)
    \cup ({"water"} \X BadRowEnds \X GoodVolumes \X GoodOrders)
    \cup ({"water"} \X GoodRowEnds \X BadVolumes \X GoodOrders)
    \cup ({"water"} \X GoodRowEnds \X GoodVolumes \X BadOrders)
    \cup ({NotSource} \X GoodRowEnds \X GoodVolumes \X GoodOrders)
    \cup ({"water"} \X GoodRowEnds \X {<<IntV(0), IntV(2)>>} \X {"forwards"})

AddGradientToRow ==
    \E a \in RowGradientArguments :
        Do([op |-> "add_gradient_to_row", what |-> a[1],
            left_position |-> a[2][1], right_position |-> a[2][2],
            lo_volume |-> a[3][1], hi_volume |-> a[3][2], order |-> a[4]],
           add_gradient_to_row(a[1], a[2][1], a[2][2], a[3][1], a[3][2], a[4]))

GoodRows == { IntV(1), Str(<<"B">>), Str(<<"2">>), ListV(<<IntV(1), Str(<<"B">>)>>) }

BadRows ==
    { IntV(3), Str(<<"Z">>), NoneV, FloatV(1),
      ListV(<<Str(<<"A">>), IntV(1)>>),
      ListV(<<Str(<<"2">>)>>),
      ListV(<<IntV(0)>>) }

\* <<what, how_much, rows>>
AddToRowsArguments ==
    (BlockSources \X {IntV(1)} \X GoodRows)
    \cup ({"water"} \X {IntV(1)} \X BadRows)
    \cup ({"water"} \X {IntV(0), IntV(0 - 1)} \X GoodRows)
    \cup ({NotSource} \X {IntV(1)} \X GoodRows)

AddToRows ==
    \E a \in AddToRowsArguments :
        Do([op |-> "add_to_rows", what |-> a[1], how_much |-> a[2], rows |-> a[3]],
           add_to_rows(a[1], a[2], a[3]))

GoodColumns == { IntV(2), Str(<<"1">>), ListV(<<Str(<<"2">>), IntV(1)>>) }

BadColumns ==
    { IntV(0), Str(<<"A">>), NoneV,
      ListV(<<IntV(1), Str(<<"1">>)>>),
      ListV(<<Str(<<"A">>)>>),
      ListV(<<FloatV(1)>>) }

\* <<what, how_much, columns>>
AddToColumnsArguments ==
    (BlockSources \X {IntV(1)} \X GoodColumns)
    \cup ({"water"} \X {IntV(1)} \X BadColumns)
    \cup ({"water"} \X {IntV(0), IntV(0 - 1)} \X GoodColumns)
    \cup ({NotSource} \X {IntV(1)} \X GoodColumns)

AddToColumns ==
    \E a \in AddToColumnsArguments :
        Do([op |-> "add_to_columns", what |-> a[1], how_much |-> a[2],
            columns |-> a[3]],
           add_to_columns(a[1], a[2], a[3]))

\* the plate of the session: rows A and B, two columns, 2 uL per well
Init ==
    /\ IsNewPlate(Plate(ListV(<<Str(<<"A">>), Str(<<"B">>)>>), IntV(2), IntV(2)).val)
    /\ call = NoCall
    /\ raised = NotRaised
    /\ returned = NoneV
    /\ warned = FALSE
    /\ calls_returned = 0
    /\ stock_solutions = <<>>

Next ==
    \/ AddCustom
    \/ AddToBlock
    \/ FillBlockUpToVolume
    \/ AddGradientToColumn
    \/ AddGradientToRow
    \/ AddToRows
    \/ AddToColumns
    \/ Return

Spec == Init /\ [][Next]_vars

---------------------------------------------------------------------------
(* The resolution of locations, on its own: a plate is constructed and     *)
(* get_canonical_form is called on it.                                     *)

\* the value get_canonical_form returns: a tuple of two ints
Pair(r, c) == TupV(<<IntV(r), IntV(c)>>)

\* a call that writes nothing ends with the result r
Called(c, r) ==
    /\ call = NoCall
    /\ call' = c
    /\ raised' = IF r.ok THEN NotRaised ELSE Exception(r)
    /\ returned' = IF r.ok THEN Pair(r.val[1], r.val[2]) ELSE NoneV
    /\ warned' = FALSE
    /\ UNCHANGED <<plate_vars, state_vars, calls_returned, stock_solutions>>

\* <<rows, columns, max_volume_per_well>> of the plates that are constructed;
\* the last four are rejected by Plate.__init__
PlateArguments ==
    { <<ListV(<<Str(<<"A">>), Str(<<"B">>)>>), IntV(2), IntV(2)>>,
      <<IntV(3), ListV(<<Str(<<"x">>), Str(<<"B">>)>>), FloatV(2)>>,
      <<ListV(<<Str(<<"A", ":", "B">>), Str(<<"x">>)>>), IntV(1), IntV(2)>>,
      <<IntV(0), IntV(2), IntV(2)>>,
      <<ListV(<<Str(<<"A">>), Str(<<"1">>)>>), IntV(2), IntV(2)>>,
      <<IntV(2), ListV(<<Str(<<"x">>), Str(<<"x">>)>>), IntV(2)>>,
      <<IntV(2), IntV(2), IntV(0)>> }

\* the row and the column of the locations that are resolved
Specs ==
    { IntV(0), IntV(1), IntV(2), IntV(3), IntV(4), FloatV(1),
      Str(<<"A">>), Str(<<"B">>), Str(<<"x">>), Str(<<"A", ":", "B">>),
      Str(<<"0">>), Str(<<"1">>), Str(<<"2">>), Str(<<"3">>), Str(<<" ", "2">>),
      Str(<<>>) }

\* the locations that are resolved: tuples, "<row>:<column>" strings, and
\* things that are neither
Locations ==
    {Loc(row, column) : row \in Specs, column \in Specs}
    \cup {Str(p[1].s \o <<":">> \o p[2].s) :
             p \in {q \in Specs \X Specs : q[1].t = "str" /\ q[2].t = "str"}}
    \cup {NoneV, Str(<<"A", "1">>), TupV(<<IntV(1)>>),
          TupV(<<IntV(1), IntV(1), IntV(1)>>), ListV(<<IntV(1), IntV(1)>>)}

GetCanonicalForm ==
    \E location \in Locations :
        Called([op |-> "get_canonical_form", location |-> location],
               get_canonical_form(location))

\* the constructions: of Plate, and of the generic plates
Constructions ==
    {Plate(a[1], a[2], a[3]) : a \in PlateArguments}
    \cup {Generic96WellPlate(FloatV(500)), Generic384WellPlate(IntV(100)),
          Generic96WellPlate(IntV(0))}

InitCanon ==
    /\ \E p \in Constructions : p.ok /\ IsNewPlate(p.val)
    /\ call = NoCall
    /\ raised = NotRaised
    /\ returned = NoneV
    /\ warned = FALSE
    /\ calls_returned = 0
    /\ stock_solutions = <<>>

NextCanon ==
    \/ GetCanonicalForm
    \/ Return

SpecCanon == InitCanon /\ [][NextCanon]_vars

---------------------------------------------------------------------------
(* The construction of stock solutions, on its own: a script constructs    *)
(* StockSolution objects from reagents and from the stock solutions it has *)
(* constructed.                                                            *)

\* a script holds at most MaxStocks stock solutions
MaxStocks == 2

\* the identities of the objects that are constructed, in order
StockIds == <<"stock1", "stock2", "stock3", "stock4">>

\* a second solvent
dmso == Solvent("dmso", StrV(<<"d">>), IntV(15)).val

\* what= of the constructions: a reagent, a stock solution that has been
\* constructed, or a solvent passed by mistake
Bases == {sulfate, water} \cup {stock_solutions[k] : k \in 1..Len(stock_solutions)}

\* the stock solutions once a construction has ended with result r
constructed(r) == IF r.ok THEN Append(stock_solutions, r.val) ELSE stock_solutions

\* a construction of a StockSolution ends with result r
Constructed(c, r) ==
    /\ call = NoCall
    /\ Len(constructed(r)) <= MaxStocks
    /\ call' = c
    /\ raised' = IF r.ok THEN NotRaised ELSE Exception(r)
    /\ returned' = NoneV
    /\ warned' = FALSE
    /\ stock_solutions' = constructed(r)
    /\ UNCHANGED <<plate_vars, state_vars, calls_returned>>

NewStockSolution ==
    \E what \in Bases, concentration \in {IntV(0), IntV(1), IntV(2), FloatV(3)},
       solvent \in {water, dmso, sulfate}, volume \in {IntV(10), IntV(0)} :
        Constructed([op |-> "StockSolution", what |-> what,
                     concentration |-> concentration, solvent |-> solvent,
                     volume |-> volume],
                    StockSolution(StockIds[Len(stock_solutions) + 1], what,
                                  concentration, solvent, volume))

NextStocks ==
    \/ NewStockSolution
    \/ Return

SpecStocks == Init /\ [][NextStocks]_vars

---------------------------------------------------------------------------
(* Gradients, on a plate of four rows and four columns of 40 uL, both axes *)
(* given as counts.                                                        *)

InitGradient ==
    /\ IsNewPlate(Plate(IntV(4), IntV(4), IntV(40)).val)
    /\ call = NoCall
    /\ raised = NotRaised
    /\ returned = NoneV
    /\ warned = FALSE
    /\ calls_returned = 0
    /\ stock_solutions = <<>>

NextGradient ==
    \/ AddGradientToColumn
    \/ AddGradientToRow
    \/ Return

SpecGradient == InitGradient /\ [][NextGradient]_vars

---------------------------------------------------------------------------
(* Dispenses of a chain of dilutions and of the stock solution of a second *)
(* Reagent of the same fields, on the plate of Init.                       *)

AddCustomOfChain ==
    \E what \in {"sulfate_2M", "twin_3M", "twin_2M", "twin_1M", "sulfate_twin"},
       item \in GoodItems :
        Do([op |-> "add_custom", what |-> what, dispense_map |-> DictV(<<item>>)],
           add_custom(what, DictV(<<item>>)))

SpecChain == Init /\ [][AddCustomOfChain \/ Return]_vars

---------------------------------------------------------------------------
(* Properties of the dispensing operations, under Spec.  A step in which   *)
(* a dispensing call ends is a step from call = NoCall to the record of    *)
(* the call; the unprimed variables are the plate before the call and the  *)
(* primed ones the plate after it.                                         *)

Dispensed == call = NoCall /\ call' # NoCall /\ call'.op # "get_canonical_form"
Succeeded == Dispensed /\ raised' = NotRaised
Failed == Dispensed /\ raised' # NotRaised

\* the volume a dispense map gives well w: the sum over the items of the map
\* whose location resolves to w
RECURSIVE mapped_volume(_, _)
mapped_volume(items, w) ==
    IF items = <<>> THEN 0
    ELSE (IF /\ get_canonical_form(Head(items)[1]).ok
             /\ get_canonical_form(Head(items)[1]).val = w
          THEN number_value(Head(items)[2])
          ELSE 0)
         + mapped_volume(Tail(items), w)

\* sum(dispense_map.values())
RECURSIVE values_sum(_)
values_sum(items) ==
    IF items = <<>> THEN 0
    ELSE number_value(Head(items)[2]) + values_sum(Tail(items))

\* the sum of a grid over the wells S
RECURSIVE grid_sum(_, _)
grid_sum(grid, S) ==
    IF S = {} THEN 0
    ELSE grid[CHOOSE w \in S : TRUE]
         + grid_sum(grid, S \ {CHOOSE w \in S : TRUE})

\* the volume a canonical map gives well w, and the sum of its volumes
RECURSIVE canonical_volume(_, _)
canonical_volume(cmap, w) ==
    IF cmap = <<>> THEN 0
    ELSE (IF Head(cmap)[1] = w THEN Head(cmap)[2] ELSE 0)
         + canonical_volume(Tail(cmap), w)

RECURSIVE canonical_sum(_)
canonical_sum(cmap) ==
    IF cmap = <<>> THEN 0 ELSE Head(cmap)[2] + canonical_sum(Tail(cmap))

\* C1: a successful add_custom(what, dispense_map) increases the volume of
\* each well of the map by the volume mapped to it and leaves every other
\* well's volume as it was, so the sum of the volumes of all wells grows by
\* the sum of the volumes of the map.
C1_AddCustomVolumes ==
    [][(Succeeded /\ call'.op = "add_custom") =>
          /\ \A w \in DOMAIN volumes :
                 volumes'[w] = volumes[w] + mapped_volume(call'.dispense_map.e, w)
          /\ \A w \in DOMAIN volumes :
                 mapped_volume(call'.dispense_map.e, w) = 0 => volumes'[w] = volumes[w]
          /\ grid_sum(volumes', DOMAIN volumes) - grid_sum(volumes, DOMAIN volumes)
                 = values_sum(call'.dispense_map.e)]_vars

\* a successful add_custom of a map of two wells, of different volumes, on a
\* plate that already holds liquid
C1_Witness ==
    /\ call.op = "add_custom"
    /\ raised = NotRaised
    /\ Len(instructions) = 2
    /\ Len(call.dispense_map.e) = 2
    /\ call.dispense_map.e[1][2] # call.dispense_map.e[2][2]

\* the entry of the ledger volumes_used for a source (0: there is none)
used(source) ==
    IF \E k \in 1..Len(volumes_used) : volumes_used[k][1] = source
    THEN volumes_used[CHOOSE k \in 1..Len(volumes_used) : volumes_used[k][1] = source][2]
    ELSE 0

\* the volume the log says was dispensed from a source
RECURSIVE dispensed_from(_, _)
dispensed_from(source, log) ==
    IF log = <<>> THEN 0
    ELSE (IF Head(log)[1] = source THEN canonical_sum(Head(log)[2]) ELSE 0)
         + dispensed_from(source, Tail(log))

\* C2: after any sequence of dispensing operations, volumes_used[source] is
\* the sum of every volume dispensed from that source by the successful
\* calls; a call with a map of different volumes per well adds the sum of
\* the map's volumes.
C2_LedgerIsSumDispensed ==
    \A source \in Whats : used(source) = dispensed_from(source, instructions)

\* the moles of slab k at well w before the call (0: the slab is new)
slab_before(k, w) == IF k <= Len(moles) THEN moles[k][w] ELSE 0

\* C3: a successful add_custom of a StockSolution adds volume * concentration
\* to the moles slab of the stock solution's reagent at each well of the
\* map, leaves that slab unchanged at every other well, and leaves the
\* slabs of all other reagents unchanged at every well.
C3_StockMoles ==
    [][(/\ Succeeded
        /\ call'.op = "add_custom"
        /\ obj(call'.what).cls = "StockSolution") =>
          /\ contains(reagents', obj(call'.what).reagent)
          /\ Len(moles') = Len(reagents')
          /\ Len(moles') >= Len(moles)
          /\ \A k \in 1..Len(moles'), w \in DOMAIN volumes :
                 moles'[k][w] =
                     slab_before(k, w)
                     + (IF reagents'[k] = obj(call'.what).reagent
                        THEN mapped_volume(call'.dispense_map.e, w)
                                 * obj(call'.what).concentration
                        ELSE 0)]_vars

\* a successful add_custom of a stock solution at concentration 2, on a plate
\* that holds moles of another reagent
C3_Witness ==
    /\ call.op = "add_custom"
    /\ raised = NotRaised
    /\ call.what = "sulfate_2M"
    /\ Len(reagents) = 2
    /\ reagents[1] = "amine"
    /\ \E w \in DOMAIN volumes : moles[1][w] > 0
    /\ \E w \in DOMAIN volumes : moles[2][w] = 0
    /\ \E w \in DOMAIN volumes : moles[2][w] > 2

\* a plate of the same dimensions, newly constructed: its grids and reagents
FreshPlate ==
    [volumes |-> Plate(IntV(n_rows), IntV(n_columns), FloatV(max_volume_per_well)).val.volumes,
     reagents |-> <<>>,
     moles |-> <<>>]

\* the reagents and the slabs once the reagent of `what` is known to plate p
known_reagents(p, what) ==
    IF obj(what).cls = "StockSolution" /\ ~contains(p.reagents, obj(what).reagent)
    THEN [reagents |-> Append(p.reagents, obj(what).reagent),
          moles |-> Append(p.moles, [w \in DOMAIN p.volumes |-> 0])]
    ELSE [reagents |-> p.reagents, moles |-> p.moles]

\* the moles slab k of q with the log entry <<what, cmap>> added
replayed_slab(q, k, what, cmap) ==
    IF obj(what).cls = "StockSolution" /\ q.reagents[k] = obj(what).reagent
    THEN [w \in DOMAIN q.moles[k] |->
             q.moles[k][w] + canonical_volume(cmap, w) * obj(what).concentration]
    ELSE q.moles[k]

\* plate p with the log entry <<what, cmap>> replayed on it
replayed_entry(p, q, what, cmap) ==
    [volumes |-> [w \in DOMAIN p.volumes |-> p.volumes[w] + canonical_volume(cmap, w)],
     reagents |-> q.reagents,
     moles |-> [k \in 1..Len(q.moles) |-> replayed_slab(q, k, what, cmap)]]

\* the log replayed in order on plate p
RECURSIVE Replay(_, _)
Replay(log, p) ==
    IF log = <<>> THEN p
    ELSE Replay(Tail(log),
                replayed_entry(p, known_reagents(p, Head(log)[1]),
                               Head(log)[1], Head(log)[2]))

\* C4: after any sequence of successful and failed operations, the log
\* replayed in order on a fresh plate of the same dimensions gives the
\* volumes, the reagents and the moles of the plate.
C4_ReplayOfLog ==
    Replay(instructions, FreshPlate)
        = [volumes |-> volumes, reagents |-> reagents, moles |-> moles]

\* a plate with two entries of different maps in its log, from stock solutions
\* of two reagents
C4_Witness ==
    /\ Len(instructions) = 2
    /\ Len(reagents) = 2
    /\ instructions[1][2] # instructions[2][2]
    /\ \E w \in DOMAIN volumes : moles[2][w] > volumes[w]

\* the entry at the end of the log is the canonical form of the dispense map
\* of an add_custom call
IsCanonicalOf(cmap, items) ==
    /\ Len(cmap) = Len(items)
    /\ \A k \in 1..Len(items) :
           /\ get_canonical_form(items[k][1]).ok
           /\ cmap[k][1] = get_canonical_form(items[k][1]).val
           /\ cmap[k][2] = number_value(items[k][2])

\* C5: the log is append-only and in call order: a dispensing call that
\* succeeds appends one entry <<source, canonical dispense map>> at the end,
\* a call that fails appends nothing, no step changes, reorders or removes
\* the entries there are, and the length of the log is the number of the
\* calls that succeeded.
C5_LogAppendOnly ==
    [][/\ Succeeded =>
              /\ Len(instructions') = Len(instructions) + 1
              /\ SubSeq(instructions', 1, Len(instructions)) = instructions
              /\ instructions'[Len(instructions')][1] = call'.what
              /\ \A k \in 1..Len(instructions'[Len(instructions')][2]) :
                     instructions'[Len(instructions')][2][k][1] \in DOMAIN volumes
              /\ call'.op = "add_custom" =>
                     IsCanonicalOf(instructions'[Len(instructions')][2],
                                   call'.dispense_map.e)
       /\ ~Succeeded => instructions' = instructions
       /\ Len(instructions') = calls_returned']_vars

\* a convenience operation has succeeded on a plate whose log had an entry
C5_Witness ==
    /\ call.op = "add_gradient_to_row"
    /\ raised = NotRaised
    /\ Len(instructions) = 2
    /\ instructions[1] # instructions[2]
    /\ calls_returned = 2

\* two items of a dispense map resolve to the same well
SameWellTwice(items) ==
    \E j, k \in 1..Len(items) :
        /\ j < k
        /\ get_canonical_form(items[j][1]).ok
        /\ get_canonical_form(items[k][1]).ok
        /\ get_canonical_form(items[j][1]).val = get_canonical_form(items[k][1]).val

\* C6: an add_custom call whose dispense map has two locations that resolve
\* to the same well raises, and leaves the volumes, the moles, the reagents,
\* volumes_used and the log as they were.
C6_DuplicateWellFails ==
    [][(/\ Dispensed
        /\ call'.op = "add_custom"
        /\ call'.dispense_map # NoneV
        /\ SameWellTwice(call'.dispense_map.e)) =>
          /\ raised' # NotRaised
          /\ UNCHANGED state_vars]_vars

\* add_custom(stock, {(1,1): 1, "A:1": 2.0}) has raised on a plate that holds
\* liquid
C6_Witness ==
    /\ call.op = "add_custom"
    /\ call.what = "amine_1M"
    /\ call.dispense_map = DictV(<<<<Loc(IntV(1), IntV(1)), IntV(1)>>,
                                   <<Str(<<"A", ":", "1">>), FloatV(2)>>>>)
    /\ raised = [err |-> "ValueError", msg |-> "cannot add twice to location"]
    /\ Len(instructions) = 1

\* C7: a dispensing operation that raises leaves the volumes, the moles, the
\* reagents, volumes_used and the log unchanged.
C7_FailureWritesNothing ==
    [][Failed => UNCHANGED state_vars]_vars

\* fill_block_up_to_volume has raised for a well over the target, on a plate
\* that holds liquid
C7_Witness ==
    /\ call.op = "fill_block_up_to_volume"
    /\ raised = [err |-> "ValueError", msg |-> "negative volume would be needed"]
    /\ Len(instructions) = 1
    /\ Len(reagents) = 1

\* C8: a dispense that takes a well above max_volume_per_well is neither
\* rejected nor rolled back: the call returns with the volumes, the moles,
\* volumes_used and the log updated; and a call prints the overflow warning
\* if and only if it succeeds and the largest volume of the plate after it
\* is strictly greater than max_volume_per_well.
C8_OverflowWarns ==
    [][Dispensed =>
          /\ warned' <=>
                 /\ raised' = NotRaised
                 /\ \E w \in DOMAIN volumes : volumes'[w] > max_volume_per_well
          /\ (/\ call'.op = "add_custom"
              /\ arguments_error(call'.what, call'.dispense_map) = ""
              /\ canonical_dispense_map(call'.dispense_map).ok) =>
                 raised' = NotRaised
          /\ (/\ warned'
              /\ \E w \in DOMAIN volumes :
                     volumes'[w] > volumes[w] /\ volumes'[w] > max_volume_per_well) =>
                 /\ Len(instructions') = Len(instructions) + 1
                 /\ \A w \in DOMAIN volumes :
                        volumes'[w] = volumes[w]
                            + canonical_volume(instructions'[Len(instructions')][2], w)
                 /\ \E k \in 1..Len(volumes_used') : volumes_used'[k][1] = call'.what
                 /\ volumes_used' # volumes_used
                 /\ obj(call'.what).cls = "StockSolution" =>
                        \E k \in 1..Len(moles'), w \in DOMAIN volumes :
                            /\ reagents'[k] = obj(call'.what).reagent
                            /\ moles'[k][w] > slab_before(k, w)]_vars

\* a call has returned having printed the warning, and has left a well of a
\* stock solution over the limit
C8_Witness ==
    /\ warned
    /\ raised = NotRaised
    /\ \E w \in DOMAIN volumes : volumes[w] > max_volume_per_well
    /\ Len(reagents) = 1

---------------------------------------------------------------------------
(* Properties of the resolution of locations, under SpecCanon.             *)

\* a call of get_canonical_form has just ended
Resolved == call.op = "get_canonical_form"

\* the in-range zero-indexed pairs of the plate, as tuples of two ints
CanonicalPairs == {Pair(w[1], w[2]) : w \in DOMAIN volumes}

\* C9: resolution is idempotent: get_canonical_form of an in-range
\* zero-indexed pair (row_index, column_index) of the plate returns that
\* pair unchanged.
C9_CanonicalIsIdempotent ==
    (Resolved /\ call.location \in CanonicalPairs) =>
        /\ raised = NotRaised
        /\ returned = call.location

\* the specs of index i (zero-indexed) on an axis of these names: the
\* 1-indexed integer, the numeric string, the name
SpecsOf(names, i) == {IntV(i + 1), StrV(format_int(i + 1)), StrV(names[i + 1])}

\* the encodings of well <<r, c>>: the tuples of a row spec and a column
\* spec, and the strings "<row-spec>:<column-spec>"
Encodings(r, c) ==
    {Loc(row, column) : row \in SpecsOf(row_names, r), column \in SpecsOf(column_names, c)}
    \cup {StrV((IF p[1].t = "int" THEN format_int(p[1].i) ELSE p[1].s)
               \o <<":">>
               \o (IF p[2].t = "int" THEN format_int(p[2].i) ELSE p[2].s)) :
             p \in SpecsOf(row_names, r) \X SpecsOf(column_names, c)}

\* a spec that is neither a name of the axis nor an integer in 1..length,
\* given as an int or as a string
InvalidSpec(spec, names) ==
    /\ spec.t \in {"int", "str"}
    /\ spec.t = "int" => spec.i \notin 1..Len(names)
    /\ spec.t = "str" =>
           /\ ~contains(names, spec.s)
           /\ ~(int_parses(spec.s) /\ int_of(spec.s) \in 1..Len(names))

\* C10: every encoding of a well <<r, c>> of the plate resolves to <<r, c>>:
\* the tuple of 1-indexed integers, of numeric strings, of names, of any mix
\* of these, and the string "<row-spec>:<column-spec>"; a location with a
\* spec that is neither a name of its axis nor an integer in 1..length
\* fails; and a resolution that succeeds returns an in-range pair.
C10_EncodingsResolve ==
    Resolved =>
        /\ \A w \in DOMAIN volumes :
               call.location \in Encodings(w[1], w[2]) =>
                   raised = NotRaised /\ returned = Pair(w[1], w[2])
        /\ (/\ call.location.t = "tuple"
            /\ Len(call.location.e) = 2
            /\ \/ InvalidSpec(call.location.e[1], row_names)
               \/ InvalidSpec(call.location.e[2], column_names)) =>
               raised # NotRaised
        /\ raised = NotRaised => returned \in CanonicalPairs

---------------------------------------------------------------------------
(* Properties of the construction of plates, under SpecCanon.              *)

\* the names of an axis are pairwise distinct
Distinct(names) == \A j, k \in 1..Len(names) : names[j] = names[k] => j = k

\* no name of an axis parses as an integer
NoIntegerName(names) == \A k \in 1..Len(names) : ~int_parses(names[k])

\* the names of an axis are "1", ..., "n": each parses as its own 1-indexed
\* position
CountedNames(names) == \A k \in 1..Len(names) : names[k] = format_int(k)

---------------------------------------------------------------------------
(* Properties of the construction of stock solutions, under SpecStocks.    *)

\* the stock solution of this identity
stock(id) == stock_solutions[CHOOSE k \in 1..Len(stock_solutions) : stock_solutions[k].id = id]

\* the stock solution s was made from a stock solution
IsDilution(s) == \E k \in 1..Len(stock_solutions) : stock_solutions[k].id = s.what

\* C12: constructing a StockSolution from a StockSolution fails whenever
\* the concentration is greater than or equal to that of the base, or the
\* solvent is not the very Solvent object of the base; so in every dilution
\* chain the concentration of a stock solution is strictly less than that
\* of the stock solution it was made from, and both have the same solvent.
C12_DilutionsMoreDilute ==
    /\ [][(/\ call = NoCall
           /\ call'.op = "StockSolution"
           /\ call'.what.cls = "StockSolution"
           /\ \/ number_value(call'.concentration) >= call'.what.concentration
              \/ call'.solvent.id # call'.what.solvent) =>
              /\ raised' # NotRaised
              /\ stock_solutions' = stock_solutions]_vars
    /\ [](\A k \in 1..Len(stock_solutions) :
              IsDilution(stock_solutions[k]) =>
                  /\ stock_solutions[k].concentration
                         < stock(stock_solutions[k].what).concentration
                  /\ stock_solutions[k].solvent
                         = stock(stock_solutions[k].what).solvent)

\* a dilution of a stock solution exists, and the construction of a stock
\* solution of its concentration from it has just failed
C12_Witness ==
    /\ Len(stock_solutions) = 2
    /\ stock_solutions[2].what = stock_solutions[1].id
    /\ call.op = "StockSolution"
    /\ call.what = stock_solutions[2]
    /\ number_value(call.concentration) = stock_solutions[2].concentration
    /\ call.solvent.id = stock_solutions[2].solvent
    /\ raised = [err |-> "ValueError", msg |-> "must be more dilute"]

---------------------------------------------------------------------------
(* Properties of the gradients, under SpecGradient.                        *)

\* the first well of the segment of a gradient call c, and its last
SegmentFirst(c) ==
    get_canonical_form(IF c.op = "add_gradient_to_column" THEN c.top_position
                       ELSE c.left_position).val

SegmentLast(c) ==
    get_canonical_form(IF c.op = "add_gradient_to_column" THEN c.bottom_position
                       ELSE c.right_position).val

\* the axis along which the segment of c runs: 1 down a column, 2 along a row
Along(c) == IF c.op = "add_gradient_to_column" THEN 1 ELSE 2

\* well w is in the segment of c
InSegment(c, w) ==
    /\ w[3 - Along(c)] = SegmentFirst(c)[3 - Along(c)]
    /\ w[Along(c)] >= SegmentFirst(c)[Along(c)]
    /\ w[Along(c)] <= SegmentLast(c)[Along(c)]

\* the number of wells of the segment of c
SegmentLength(c) == SegmentLast(c)[Along(c)] - SegmentFirst(c)[Along(c)] + 1

\* the position i = 0..n-1 of well w in the segment of c: from the first
\* well forwards, from the last well backwards
SegmentPosition(c, w) ==
    IF c.order = "forwards" THEN w[Along(c)] - SegmentFirst(c)[Along(c)]
    ELSE SegmentLast(c)[Along(c)] - w[Along(c)]

\* C13: a gradient over a segment of n >= 2 wells dispenses to the i-th well
\* of the segment (counted from the left or the top for "forwards", from the
\* right or the bottom for "backwards") exactly lo + i * (hi - lo) / (n - 1),
\* and leaves the wells outside the segment unchanged.
C13_GradientIsLinear ==
    [][(/\ Succeeded
        /\ call'.op \in {"add_gradient_to_column", "add_gradient_to_row"}) =>
          /\ SegmentLength(call') >= 2
          /\ \A w \in DOMAIN volumes :
                 IF InSegment(call', w)
                 THEN (SegmentLength(call') - 1)
                          * (volumes'[w] - volumes[w] - number_value(call'.lo_volume))
                      = SegmentPosition(call', w)
                          * (number_value(call'.hi_volume) - number_value(call'.lo_volume))
                 ELSE volumes'[w] = volumes[w]]_vars

\* a gradient of 10 to 40 uL, backwards, has gone down four wells of a
\* column that held a gradient: 40, 30, 20, 10 were added from the top
C13_Witness ==
    /\ call.op = "add_gradient_to_column"
    /\ call.order = "backwards"
    /\ raised = NotRaised
    /\ call.lo_volume = IntV(10)
    /\ Len(instructions) = 2
    /\ instructions[2][2] = <<<<<<3, 2>>, 10>>, <<<<2, 2>>, 20>>,
                              <<<<1, 2>>, 30>>, <<<<0, 2>>, 40>>>>
    /\ volumes[<<0, 2>>] = 50
    /\ volumes[<<3, 2>>] = 50

---------------------------------------------------------------------------
(* Properties of the blocks, under Spec.                                   *)

\* well w is in the rectangle of the corners ul and br, both included
InBlock(ul, br, w) ==
    /\ ul[1] <= w[1] /\ w[1] <= br[1]
    /\ ul[2] <= w[2] /\ w[2] <= br[2]

\* the corner ul is below, or to the right of, the corner br
Inverted(ul, br) == ul[1] > br[1] \/ ul[2] > br[2]

\* the resolved corners of the block of call c
UpperLeft(c) == get_canonical_form(c.upper_left)
BottomRight(c) == get_canonical_form(c.bottom_right)

\* C14: add_to_block adds the volume to exactly the wells of the rectangle,
\* corners included, on top of what each well held (so overlapping blocks
\* sum), and to no other well; it fails when the upper-left corner is below
\* or to the right of the bottom-right corner.
C14_BlockAddsToRectangle ==
    [][(Dispensed /\ call'.op = "add_to_block") =>
          /\ (/\ UpperLeft(call').ok /\ BottomRight(call').ok
              /\ Inverted(UpperLeft(call').val, BottomRight(call').val))
                 => (raised' # NotRaised /\ volumes' = volumes)
          /\ raised' = NotRaised =>
                /\ UpperLeft(call').ok /\ BottomRight(call').ok
                /\ \A w \in DOMAIN volumes :
                       volumes'[w] =
                           volumes[w]
                           + (IF InBlock(UpperLeft(call').val, BottomRight(call').val, w)
                              THEN number_value(call'.how_much) ELSE 0)]_vars

\* a block of the whole plate has gone over a well that held 1 uL: that well
\* holds 2 uL, the others 1 uL
C14_Witness ==
    /\ call.op = "add_to_block"
    /\ raised = NotRaised
    /\ call.upper_left = Loc(IntV(1), IntV(1))
    /\ call.bottom_right = Str(<<"B", ":", "2">>)
    /\ volumes[<<0, 0>>] = 2
    /\ volumes[<<0, 1>>] = 1
    /\ volumes[<<1, 0>>] = 1
    /\ volumes[<<1, 1>>] = 1

\* a block whose corners are in the wrong order has been refused
C14_WitnessInverted ==
    /\ call.op = "add_to_block"
    /\ raised # NotRaised
    /\ UpperLeft(call).ok /\ BottomRight(call).ok
    /\ ~Inverted(<<UpperLeft(call).val[1], 0>>, <<BottomRight(call).val[1], 0>>)
    /\ Inverted(UpperLeft(call).val, BottomRight(call).val)

---------------------------------------------------------------------------
(* Properties of the fills, under Spec.                                    *)

\* the call c is a fill of a rectangle of the plate by a source, to a target
\* over zero and within the capacity of a well
IsFill(c) ==
    /\ c.op = "fill_block_up_to_volume"
    /\ is_source(c.what)
    /\ number_value(c.target_volume) > 0
    /\ number_value(c.target_volume) <= max_volume_per_well
    /\ UpperLeft(c).ok /\ BottomRight(c).ok
    /\ ~Inverted(UpperLeft(c).val, BottomRight(c).val)

\* well w is in the rectangle of the fill c
InFill(c, w) == InBlock(UpperLeft(c).val, BottomRight(c).val, w)

\* the fill has brought every well of its rectangle to the target, and has
\* left the others alone
Filled ==
    /\ raised' = NotRaised
    /\ \A w \in DOMAIN volumes :
           volumes'[w] = IF InFill(call', w) THEN number_value(call'.target_volume)
                         ELSE volumes[w]

\* C15: a fill of a rectangle in which no well holds more than the target
\* succeeds and leaves every well of the rectangle at the target and the
\* other wells unchanged, also when every well already holds the target.
C15_FillReachesTarget ==
    [][(/\ Dispensed
        /\ IsFill(call')
        /\ \A w \in DOMAIN volumes :
               InFill(call', w) => volumes[w] <= number_value(call'.target_volume))
          => Filled]_vars

\* the same, for the fills that find a well under the target
C15_FillOfRoomReachesTarget ==
    [][(/\ Dispensed
        /\ IsFill(call')
        /\ \A w \in DOMAIN volumes :
               InFill(call', w) => volumes[w] <= number_value(call'.target_volume)
        /\ \E w \in DOMAIN volumes :
               InFill(call', w) /\ volumes[w] < number_value(call'.target_volume))
          => Filled]_vars

\* a fill of a rectangle whose wells all held the target has raised
C15_FullBlockRaises ==
    /\ call # NoCall
    /\ IsFill(call)
    /\ raised = [err |-> "ValueError", msg |-> "must dispense at least one thing"]
    /\ \A w \in DOMAIN volumes :
           InFill(call, w) => volumes[w] = number_value(call.target_volume)

\* some well of the rectangle of the fill c holds more than the target
OverTarget(c) ==
    /\ c.op = "fill_block_up_to_volume"
    /\ UpperLeft(c).ok /\ BottomRight(c).ok
    /\ ~Inverted(UpperLeft(c).val, BottomRight(c).val)
    /\ \E w \in DOMAIN volumes :
           InFill(c, w) /\ volumes[w] > number_value(c.target_volume)

\* C16: a fill fails whenever some well of its rectangle already holds more
\* than the target, whatever the other wells hold; no well receives any
\* volume and nothing is logged.
C16_FillOverTargetFails ==
    [][(Dispensed /\ OverTarget(call')) =>
          /\ raised' # NotRaised
          /\ IsFill(call') => raised'.msg = "negative volume would be needed"
          /\ UNCHANGED state_vars]_vars

\* a fill has been refused for a well over the target, in a rectangle that
\* has a well under the target
C16_Witness ==
    /\ call # NoCall
    /\ IsFill(call)
    /\ OverTarget(call)
    /\ raised = [err |-> "ValueError", msg |-> "negative volume would be needed"]
    /\ \E w \in DOMAIN volumes :
           InFill(call, w) /\ volumes[w] < number_value(call.target_volume)
    /\ Len(instructions) = 1

---------------------------------------------------------------------------
(* Properties of the selections of rows and columns, under Spec.           *)

\* the selection of the call c, the names and the length of its axis, and
\* the place of the axis in a well: 1 for the rows, 2 for the columns
Selection(c) == IF c.op = "add_to_rows" THEN c.rows ELSE c.columns
AxisNames(c) == IF c.op = "add_to_rows" THEN row_names ELSE column_names
AxisLength(c) == IF c.op = "add_to_rows" THEN n_rows ELSE n_columns
Axis(c) == IF c.op = "add_to_rows" THEN 1 ELSE 2

\* the rows or columns the selection of c addresses, one by one
Addresses(c) == IF Selection(c).t = "list" THEN Selection(c).e ELSE <<Selection(c)>>

\* item addresses a row or column of c by its 1-indexed number or by its name
Addressed(c, item) ==
    \/ item.t = "int" /\ item.i >= 1 /\ item.i <= AxisLength(c)
    \/ item.t = "str" /\ contains(AxisNames(c), item.s)

\* the 0-indexed row or column that item addresses
LineOf(c, item) ==
    IF item.t = "int" THEN item.i - 1
    ELSE IF contains(AxisNames(c), item.s) THEN index(AxisNames(c), item.s)
    ELSE int_of(item.s) - 1

\* the selection of c addresses some row or column twice
AddressedTwice(c) ==
    \E j, k \in 1..Len(Addresses(c)) :
        /\ j # k
        /\ Addressed(c, Addresses(c)[j])
        /\ Addressed(c, Addresses(c)[k])
        /\ LineOf(c, Addresses(c)[j]) = LineOf(c, Addresses(c)[k])

\* the selection of c is one or more rows or columns, each by number or name
WellAddressed(c) ==
    /\ Selection(c).t \in {"int", "str", "list"}
    /\ Addresses(c) # <<>>
    /\ \A k \in 1..Len(Addresses(c)) : Addressed(c, Addresses(c)[k])

\* C17: add_to_rows and add_to_columns, given one or more rows or columns,
\* each by 1-indexed number or by name, add the volume to every well of the
\* selected rows or columns and to no other well; a selection that has the
\* same row or column twice, be it once by name and once by number, is
\* rejected.
C17_SelectionsAddToLines ==
    [][(Dispensed /\ call'.op \in {"add_to_rows", "add_to_columns"}) =>
          /\ AddressedTwice(call') => (raised' # NotRaised /\ UNCHANGED state_vars)
          /\ (/\ is_source(call'.what)
              /\ is_number(call'.how_much) /\ number_value(call'.how_much) > 0
              /\ WellAddressed(call')
              /\ ~AddressedTwice(call')) => raised' = NotRaised
          /\ raised' = NotRaised =>
                \A w \in DOMAIN volumes :
                    volumes'[w] =
                        volumes[w]
                        + (IF \E k \in 1..Len(Addresses(call')) :
                                  LineOf(call', Addresses(call')[k]) = w[Axis(call')]
                           THEN number_value(call'.how_much) ELSE 0)]_vars

\* rows 1 and "B" have been added to after column 2: the wells of column 2
\* hold 2 uL, the others 1 uL
C17_Witness ==
    /\ call.op = "add_to_rows"
    /\ call.rows = ListV(<<IntV(1), Str(<<"B">>)>>)
    /\ raised = NotRaised
    /\ volumes[<<0, 0>>] = 1 /\ volumes[<<1, 0>>] = 1
    /\ volumes[<<0, 1>>] = 2 /\ volumes[<<1, 1>>] = 2
    /\ Len(instructions) = 2

\* a selection of row "A" and row 1 has been rejected
C17_WitnessTwice ==
    /\ call.op = "add_to_rows"
    /\ AddressedTwice(call)
    /\ raised = [err |-> "ValueError", msg |-> "check for duplicates in locations"]

---------------------------------------------------------------------------
(* The convenience operations as one add_custom, under Spec.               *)

Convenience ==
    {"add_to_rows", "add_to_columns", "add_to_block", "fill_block_up_to_volume",
     "add_gradient_to_row", "add_gradient_to_column"}

\* the wells of the plate, row by row
AllWells ==
    [k \in 1..(n_rows * n_columns) |-> <<(k - 1) \div n_columns, (k - 1) % n_columns>>]

\* the wells of the rectangle of c, row by row
WellsOfBlock(c) == SelectSeq(AllWells, LAMBDA w : InFill(c, w))

\* the items of the map of add_to_block
ItemsOfBlock(c) ==
    [k \in 1..Len(WellsOfBlock(c)) |-> <<location_of(WellsOfBlock(c)[k]), c.how_much>>]

\* the wells of the rectangle of c that are under the target, row by row
WellsToFill(c) ==
    SelectSeq(AllWells,
              LAMBDA w : InFill(c, w) /\ volumes[w] < number_value(c.target_volume))

\* the items of the map of fill_block_up_to_volume
ItemsOfFill(c) ==
    [k \in 1..Len(WellsToFill(c)) |->
        <<location_of(WellsToFill(c)[k]),
          FloatV(number_value(c.target_volume) - volumes[WellsToFill(c)[k]])>>]

\* the items of the map of add_to_rows: column by column, the selected rows
\* in the order of the selection
ItemsOfRows(c) ==
    [k \in 1..(n_columns * Len(Addresses(c))) |->
        <<TupV(<<IntV(LineOf(c, Addresses(c)[((k - 1) % Len(Addresses(c))) + 1]) + 1),
                 IntV(((k - 1) \div Len(Addresses(c))) + 1)>>),
          c.how_much>>]

\* the items of the map of add_to_columns: row by row, the selected columns
\* in the order of the selection
ItemsOfColumns(c) ==
    [k \in 1..(n_rows * Len(Addresses(c))) |->
        <<TupV(<<IntV(((k - 1) \div Len(Addresses(c))) + 1),
                 IntV(LineOf(c, Addresses(c)[((k - 1) % Len(Addresses(c))) + 1]) + 1)>>),
          c.how_much>>]

\* the k-th well of the segment of the gradient c, in the order of c
WellOfGradient(c, k) ==
    IF Along(c) = 1
    THEN <<(IF c.order = "forwards" THEN SegmentFirst(c)[1] + k - 1
            ELSE SegmentLast(c)[1] - k + 1),
           SegmentFirst(c)[2]>>
    ELSE <<SegmentFirst(c)[1],
           (IF c.order = "forwards" THEN SegmentFirst(c)[2] + k - 1
            ELSE SegmentLast(c)[2] - k + 1)>>

\* the items of the map of a gradient
ItemsOfGradient(c) ==
    [k \in 1..SegmentLength(c) |->
        <<location_of(WellOfGradient(c, k)),
          FloatV(number_value(c.lo_volume)
                 + ((k - 1) * (number_value(c.hi_volume) - number_value(c.lo_volume)))
                       \div (SegmentLength(c) - 1))>>]

\* the dispense map that the convenience operation c constructs
MapOf(c) ==
    DictV(CASE c.op = "add_to_block" -> ItemsOfBlock(c)
            [] c.op = "fill_block_up_to_volume" -> ItemsOfFill(c)
            [] c.op = "add_to_rows" -> ItemsOfRows(c)
            [] c.op = "add_to_columns" -> ItemsOfColumns(c)
            [] OTHER -> ItemsOfGradient(c))

\* the step has the effect `post` of an operation
Effect(post) ==
    /\ post.raised = NotRaised
    /\ reagents' = post.reagents
    /\ volumes' = post.volumes
    /\ moles' = post.moles
    /\ instructions' = post.instructions
    /\ volumes_used' = post.volumes_used
    /\ warned' = post.warned

\* C18: a convenience operation that succeeds has exactly the effect of one
\* add_custom call with the dispense map it constructs: the same volumes,
\* moles, reagents, volumes_used, log entry and overflow warning.
C18_ConvenienceIsOneAddCustom ==
    [][(Succeeded /\ call'.op \in Convenience) =>
          \E post \in {add_custom(call'.what, MapOf(call'))} : Effect(post)]_vars

\* the fill of a block, two of whose wells were under the target by
\* different volumes, has had the effect of add_custom with two items
C18_Witness ==
    /\ call.op = "fill_block_up_to_volume"
    /\ raised = NotRaised
    /\ Len(instructions) = 2
    /\ Len(instructions[2][2]) = 3
    /\ instructions[2][2][1][2] # instructions[2][2][2][2]

---------------------------------------------------------------------------
(* Properties of the reagents and their micromoles, under Spec.            *)

\* C19: dispensing a Solvent, through any operation, leaves the reagents
\* list and every entry of the moles grid unchanged: no reagent is ever
\* registered because of a Solvent.
C19_SolventLeavesMoles ==
    [][(Dispensed /\ obj(call'.what).cls = "Solvent") =>
          /\ reagents' = reagents
          /\ moles' = moles]_vars

\* a Solvent has been dispensed on a plate that holds a stock solution
C19_Witness ==
    /\ call # NoCall
    /\ call.op # "get_canonical_form"
    /\ obj(call.what).cls = "Solvent"
    /\ raised = NotRaised
    /\ Len(instructions) = 2
    /\ instructions[2][1] = call.what
    /\ Len(reagents) = 1
    /\ Len(moles) = 1
    /\ \E w \in DOMAIN volumes : moles[1][w] > 0

\* the slabs are as many as the reagents, which are pairwise distinct
Parallel(the_reagents, the_moles) ==
    /\ Len(the_moles) = Len(the_reagents)
    /\ \A j, k \in 1..Len(the_reagents) : j # k => the_reagents[j] # the_reagents[k]

\* C20: the moles grid is parallel to the reagents list: as many slabs as
\* registered reagents (none while there are none), the reagents pairwise
\* distinct and kept in the order of their first dispense; registering a
\* reagent appends one slab, all zero before the dispense that registers it,
\* and leaves the index and the contents of the other slabs unchanged.
C20_MolesParallelToReagents ==
    /\ Parallel(reagents, moles)
    /\ [][/\ Parallel(reagents', moles')
          /\ Len(reagents') <= Len(reagents) + 1
          /\ SubSeq(reagents', 1, Len(reagents)) = reagents
          /\ Len(reagents') > Len(reagents) =>
                /\ Succeeded
                /\ obj(call'.what).cls = "StockSolution"
                /\ reagents'[Len(reagents')] = obj(call'.what).reagent
                /\ SubSeq(moles', 1, Len(moles)) = moles
                /\ \A w \in DOMAIN volumes :
                       moles'[Len(moles')][w] =
                           canonical_volume(instructions'[Len(instructions')][2], w)
                               * obj(call'.what).concentration]_vars

\* a second reagent has been registered: its slab is zero but for the well
\* of its first dispense, and the slab of the first reagent is as it was
C20_Witness ==
    /\ call # NoCall
    /\ raised = NotRaised
    /\ Len(reagents) = 2
    /\ Len(moles) = 2
    /\ reagents[2] = obj(call.what).reagent
    /\ \E w \in DOMAIN volumes : moles[1][w] > 0
    /\ \E w \in DOMAIN volumes : moles[2][w] > 0
    /\ \E w \in DOMAIN volumes : moles[2][w] = 0

---------------------------------------------------------------------------
(* Properties of the dilution chains, under SpecChain.                     *)

\* the Reagent at the bottom of the dilution chain of the stock solution o
RECURSIVE Terminal(_)
Terminal(o) == IF obj(o.what).cls = "Reagent" THEN o.what ELSE Terminal(obj(o.what))

\* the number of dilutions between the stock solution o and its Reagent
RECURSIVE ChainLength(_)
ChainLength(o) == IF obj(o.what).cls = "Reagent" THEN 0 ELSE 1 + ChainLength(obj(o.what))

\* C21: the reagent of a StockSolution is the Reagent at the bottom of its
\* dilution chain, whatever the length of the chain; a stock solution and
\* its dilutions add their micromoles, each at its own concentration, to
\* the one slab of that Reagent, and two Reagent objects of the same fields
\* are two entries of the reagents list, each with its slab.
C21_TerminalReagentSlab ==
    [][(Succeeded /\ obj(call'.what).cls = "StockSolution") =>
          /\ obj(call'.what).reagent = Terminal(obj(call'.what))
          /\ contains(reagents', Terminal(obj(call'.what)))
          /\ contains(reagents, Terminal(obj(call'.what))) => reagents' = reagents
          /\ ~contains(reagents, Terminal(obj(call'.what))) =>
                 reagents' = Append(reagents, Terminal(obj(call'.what)))
          /\ Len(moles') = Len(reagents')
          /\ \A k \in 1..Len(moles'), w \in DOMAIN volumes :
                 moles'[k][w] =
                     slab_before(k, w)
                     + (IF reagents'[k] = Terminal(obj(call'.what))
                        THEN mapped_volume(call'.dispense_map.e, w)
                                 * obj(call'.what).concentration
                        ELSE 0)]_vars

\* 1 uL of the 1 M dilution of the 2 M dilution of the 3 M stock solution has
\* gone to the well that held 1 uL of the 3 M one: one reagent, one slab, 4 umol
C21_Witness ==
    /\ call # NoCall
    /\ call.what = "twin_1M"
    /\ ChainLength(obj(call.what)) = 2
    /\ raised = NotRaised
    /\ Len(instructions) = 2
    /\ instructions[1][1] = "twin_3M"
    /\ reagents = <<"sulfate_twin">>
    /\ Len(moles) = 1
    /\ moles[1][<<0, 0>>] = 4

\* the stock solutions of two Reagent objects of the same fields have been
\* dispensed: two reagents, two slabs
C21_WitnessTwins ==
    /\ raised = NotRaised
    /\ reagents = <<"sulfate", "sulfate_twin">>
    /\ [obj("sulfate") EXCEPT !.id = ""] = [obj("sulfate_twin") EXCEPT !.id = ""]
    /\ Len(moles) = 2
    /\ \E w \in DOMAIN volumes : moles[1][w] > 0 /\ moles[2][w] > 0

---------------------------------------------------------------------------
(* The recipes of the stock solutions: a stock solution of a solid or of a *)
(* liquid, alone or with a dilution of it, is constructed and its recipe   *)
(* is asked for (src/Example2.py, lines 16-27).                            *)

InitRecipes ==
    /\ IsNewPlate(Plate(ListV(<<Str(<<"A">>), Str(<<"B">>)>>), IntV(2), IntV(2)).val)
    /\ call = NoCall
    /\ raised = NotRaised
    /\ returned = NoneV
    /\ warned = FALSE
    /\ calls_returned = 0
    /\ \E what \in {"sulfate", "salt", "amine"},
          of_base \in {IntV(1), IntV(2), FloatV(10)} \X {IntV(1), FloatV(10)},
          of_dilution \in {IntV(1), IntV(2), FloatV(10)} \X {IntV(1), FloatV(10)} :
           \E base \in {StockSolution("stock1", obj(what), of_base[1], water, of_base[2])} :
               \E dilution \in {StockSolution("stock2", base.val, of_dilution[1],
                                              water, of_dilution[2])} :
                   stock_solutions = IF dilution.ok THEN <<base.val, dilution.val>>
                                     ELSE <<base.val>>

GetInstructionsString ==
    \E k \in 1..Len(stock_solutions) :
        /\ call = NoCall
        /\ call' = [op |-> "get_instructions_string", self |-> stock_solutions[k].id]
        /\ returned' = get_instructions_string(
                           stock_solutions[k],
                           IF IsDilution(stock_solutions[k])
                           THEN stock(stock_solutions[k].what)
                           ELSE obj(stock_solutions[k].what))
        /\ raised' = NotRaised
        /\ warned' = FALSE
        /\ UNCHANGED <<plate_vars, state_vars, calls_returned, stock_solutions>>

SpecRecipes == InitRecipes /\ [][GetInstructionsString \/ Return]_vars

---------------------------------------------------------------------------
(* Properties of the recipes, under SpecRecipes.                           *)

\* the recipe of a stock solution has been returned; the stock solution,
\* and what it was made from
Recipe == call # NoCall /\ call.op = "get_instructions_string"
Self == stock(call.self)
Base == IF IsDilution(Self) THEN stock(Self.what) ELSE obj(Self.what)
OfSolid == Base.cls = "Reagent" /\ Base.reagent_type = "SOLID"
OfLiquid == Base.cls = "Reagent" /\ Base.reagent_type = "LIQUID"

\* the quantity, in grams or millilitres, that the printed number x stands for
Quantity(x) ==
    IF x.unit \in {"mg", "uL"} THEN <<x.number[1], x.number[2] * 1000>> ELSE x.number

\* fractions: q = r, q < r, and q < 1
Same(q, r) == q[1] * r[2] = r[1] * q[2]
Less(q, r) == q[1] * r[2] < r[1] * q[2]
BelowOne(q) == q[1] < q[2]

\* C22: the recipe of a stock solution of a solid gives the weight
\* concentration * (volume / 1000) * molecular_weight, in mg when it is
\* below 1 g and in g otherwise (1 g is given in g); every volume of a
\* recipe is in uL when it is below 1 mL and in mL otherwise (1 mL is given
\* in mL).
C22_RecipeUnits ==
    Recipe =>
        /\ OfSolid =>
              /\ Same(Quantity(returned.added),
                      <<Self.concentration * Self.volume * Base.molecular_weight, 1000>>)
              /\ returned.added.unit
                     = IF BelowOne(Quantity(returned.added)) THEN "mg" ELSE "g"
        /\ ~OfSolid =>
              returned.added.unit
                  = IF BelowOne(Quantity(returned.added)) THEN "uL" ELSE "mL"
        /\ returned.solvent.unit
               = IF BelowOne(Quantity(returned.solvent)) THEN "uL" ELSE "mL"

\* the same, with 1 g given in mg and 1 mL in uL
C22_RecipeUnitsOverOne ==
    Recipe =>
        /\ OfSolid =>
              /\ Same(Quantity(returned.added),
                      <<Self.concentration * Self.volume * Base.molecular_weight, 1000>>)
              /\ returned.added.unit
                     = IF Less(<<1, 1>>, Quantity(returned.added)) THEN "g" ELSE "mg"
        /\ ~OfSolid =>
              returned.added.unit
                  = IF Less(<<1, 1>>, Quantity(returned.added)) THEN "mL" ELSE "uL"
        /\ returned.solvent.unit
               = IF Less(<<1, 1>>, Quantity(returned.solvent)) THEN "mL" ELSE "uL"

\* the recipe of 10 mL of a 1 M solution of a solid of 100 g/mol gives its
\* weight, 1 g, as 1000 mg
C22_OneGramInMilligrams ==
    /\ Recipe
    /\ OfSolid
    /\ Self.concentration * Self.volume * Base.molecular_weight = 1000
    /\ returned.added = [number |-> <<1000000, 1000>>, unit |-> "mg"]

\* C23: the recipe of a dilution gives concentration * volume /
\* base.concentration of the stock solution and the rest of the volume of
\* solvent; the two add up to the volume, and both are over zero (the
\* volume of stock solution is under the volume).
C23_DilutionRecipe ==
    (Recipe /\ IsDilution(Self)) =>
        /\ returned.form = "Combine"
        /\ Same(Quantity(returned.added),
                <<Self.concentration * Self.volume, Base.concentration>>)
        /\ Same(Quantity(returned.solvent),
                <<Self.volume * Base.concentration - Self.concentration * Self.volume,
                  Base.concentration>>)
        /\ Same(<<Quantity(returned.added)[1] * Quantity(returned.solvent)[2]
                      + Quantity(returned.solvent)[1] * Quantity(returned.added)[2],
                  Quantity(returned.added)[2] * Quantity(returned.solvent)[2]>>,
                <<Self.volume, 1>>)
        /\ Less(<<0, 1>>, Quantity(returned.added))
        /\ Less(Quantity(returned.added), <<Self.volume, 1>>)
        /\ Less(<<0, 1>>, Quantity(returned.solvent))

\* the recipe of 1 mL of a 2 M dilution of a 10 M stock solution: 200 uL of
\* it with 800 uL of solvent
C23_Witness ==
    /\ Recipe
    /\ IsDilution(Self)
    /\ Self.concentration = 2 /\ Base.concentration = 10 /\ Self.volume = 1
    /\ returned.added.unit = "uL" /\ Same(returned.added.number, <<200, 1>>)
    /\ returned.solvent.unit = "uL" /\ Same(returned.solvent.number, <<800, 1>>)

\* C30: in the recipe of a stock solution made from a liquid Reagent the
\* volume of solvent (the volume less weight / density) is not negative and
\* the volume of the reagent is not over the volume of the stock solution.
C30_LiquidRecipeFits ==
    (Recipe /\ OfLiquid) =>
        /\ ~Less(Quantity(returned.solvent), <<0, 1>>)
        /\ ~Less(<<Self.volume, 1>>, Quantity(returned.added))

\* the recipe of 10 mL of a 10 M solution of a liquid of 101 g/mol and
\* 1 g/mL: 10.1 mL of it, less than no solvent
C30_MoreReagentThanSolution ==
    /\ Recipe
    /\ OfLiquid
    /\ Self.concentration = 10 /\ Self.volume = 10
    /\ returned.added.unit = "mL" /\ Same(returned.added.number, <<101, 10>>)
    /\ Less(Quantity(returned.solvent), <<0, 1>>)

---------------------------------------------------------------------------
(* The capacity of the wells and the gradients, under SpecGradient.        *)

\* C24: every volume that a successful gradient dispenses into a well is at
\* most max_volume_per_well, for all the lo_volume and hi_volume that are
\* accepted, lo_volume over hi_volume included.
C24_GradientWithinCapacity ==
    [][(/\ Succeeded
        /\ call'.op \in {"add_gradient_to_column", "add_gradient_to_row"}) =>
          \A w \in DOMAIN volumes : volumes'[w] - volumes[w] <= max_volume_per_well]_vars

\* a gradient from 70 uL down to 10 uL has been accepted on the plate of
\* 40 uL per well, and has dispensed 70 uL into an empty well
C24_OverCapacityDispensed ==
    /\ call # NoCall
    /\ call.op = "add_gradient_to_column"
    /\ raised = NotRaised
    /\ number_value(call.lo_volume) = 70 /\ number_value(call.hi_volume) = 10
    /\ max_volume_per_well = 40
    /\ Len(instructions) = 1
    /\ \E w \in DOMAIN volumes : volumes[w] = 70

---------------------------------------------------------------------------
(* A selection alone and in a list, under Spec.                            *)

\* what the call c of add_to_rows or add_to_columns does when it is given
\* the selection `alone`
GivenAlone(c, alone) ==
    IF c.op = "add_to_rows" THEN add_to_rows(c.what, c.how_much, alone)
    ELSE add_to_columns(c.what, c.how_much, alone)

\* C25: add_to_rows and add_to_columns treat a selector alone and the list
\* of that one selector alike: if the selector alone is accepted, so is the
\* list, with the same plate afterwards; if it is rejected alone, the list
\* is rejected with the same kind of error.
C25_AloneAsInList ==
    [][(/\ Dispensed
        /\ call'.op \in {"add_to_rows", "add_to_columns"}
        /\ Selection(call').t = "list"
        /\ Len(Selection(call').e) = 1) =>
          \E post \in {GivenAlone(call', Selection(call').e[1])} :
              /\ post.raised = NotRaised => (raised' = NotRaised /\ Effect(post))
              /\ post.raised # NotRaised => raised'.err = post.raised.err]_vars

\* the list of the numeric string "2" has been rejected with a TypeError
\* where "2" alone selects row 2
C25_NumeralInListRaises ==
    /\ call # NoCall
    /\ call.op = "add_to_rows"
    /\ call.rows = ListV(<<Str(<<"2">>)>>)
    /\ raised.err = "TypeError"
    /\ add_to_rows(call.what, call.how_much, Str(<<"2">>)).raised = NotRaised

---------------------------------------------------------------------------
(* Volumes of zero and under zero, under Spec.                             *)

\* the dispense map m gives no volume to each of its wells; and m with 1 uL
\* in place of each volume
AllZero(m) ==
    /\ m.t = "dict"
    /\ m.e # <<>>
    /\ \A k \in 1..Len(m.e) : is_number(m.e[k][2]) /\ number_value(m.e[k][2]) = 0

Ones(m) == DictV([k \in 1..Len(m.e) |-> <<m.e[k][1], IntV(1)>>])

\* the gradient c with hi_volume in place of lo_volume
GradientFromHi(c) ==
    IF c.op = "add_gradient_to_column"
    THEN add_gradient_to_column(c.what, c.top_position, c.bottom_position,
                                c.hi_volume, c.hi_volume, c.order)
    ELSE add_gradient_to_row(c.what, c.left_position, c.right_position,
                             c.hi_volume, c.hi_volume, c.order)

\* the call c is given a volume under zero
NegativeVolume(c) ==
    \/ /\ c.op = "add_custom"
       /\ c.dispense_map.t = "dict"
       /\ \E k \in 1..Len(c.dispense_map.e) :
              /\ is_number(c.dispense_map.e[k][2])
              /\ number_value(c.dispense_map.e[k][2]) < 0
    \/ /\ c.op \in {"add_to_block", "add_to_rows", "add_to_columns"}
       /\ number_value(c.how_much) < 0
    \/ /\ c.op = "fill_block_up_to_volume"
       /\ number_value(c.target_volume) < 0
    \/ /\ c.op \in {"add_gradient_to_column", "add_gradient_to_row"}
       /\ (number_value(c.lo_volume) < 0 \/ number_value(c.hi_volume) < 0)

\* the step has added an entry to the log and has left the volumes as they
\* were, and `kept` holds of the moles
LoggedOnly(kept) ==
    /\ raised' = NotRaised
    /\ Len(instructions') = Len(instructions) + 1
    /\ volumes' = volumes
    /\ kept

\* what the operations do with a volume of zero or under zero; `kept` says
\* what a dispense of no volume leaves of the moles
ZeroRules(kept) ==
    /\ (/\ call'.op = "add_custom"
        /\ AllZero(call'.dispense_map)
        /\ add_custom(call'.what, Ones(call'.dispense_map)).raised = NotRaised)
           => LoggedOnly(kept)
    /\ (/\ call'.op = "add_to_block"
        /\ number_value(call'.how_much) = 0
        /\ add_to_block(call'.what, IntV(1), call'.upper_left,
                        call'.bottom_right).raised = NotRaised)
           => LoggedOnly(kept)
    /\ (/\ call'.op \in {"add_gradient_to_column", "add_gradient_to_row"}
        /\ number_value(call'.lo_volume) = 0
        /\ GradientFromHi(call').raised = NotRaised)
           => raised' = NotRaised
    /\ (/\ call'.op \in {"add_to_rows", "add_to_columns"}
        /\ number_value(call'.how_much) = 0)
           => (raised' # NotRaised /\ UNCHANGED state_vars)
    /\ NegativeVolume(call') => (raised' # NotRaised /\ UNCHANGED state_vars)

\* C26 as stated: add_custom and add_to_block accept a volume of 0, with a
\* new log entry and the volumes and the moles grid unchanged; the gradients
\* accept lo_volume = 0; add_to_rows and add_to_columns reject how_much = 0
\* and change nothing; every operation rejects a volume under zero.
C26_ZeroKeepsMolesGrid ==
    [][Dispensed => ZeroRules(moles' = moles)]_vars

\* C26 as the code has it: the same, but a dispense of no volume leaves the
\* slabs of the moles grid as they were and may add one slab, all zero, for
\* the reagent of a stock solution that is dispensed for the first time.
C26_ZeroKeepsMoles ==
    [][Dispensed =>
          ZeroRules(/\ SubSeq(moles', 1, Len(moles)) = moles
                    /\ \A k \in (Len(moles) + 1)..Len(moles'), w \in DOMAIN volumes :
                           moles'[k][w] = 0
                    /\ moles' # moles =>
                           /\ obj(call'.what).cls = "StockSolution"
                           /\ ~contains(reagents, obj(call'.what).reagent)
                           /\ reagents' = Append(reagents, obj(call'.what).reagent))]_vars

\* no volume of a stock solution has been dispensed to a well of the new
\* plate: one log entry, no liquid, the reagent registered with a slab of
\* zeros
C26_Witness ==
    /\ call # NoCall
    /\ call.op = "add_custom"
    /\ AllZero(call.dispense_map)
    /\ raised = NotRaised
    /\ Len(instructions) = 1
    /\ \A w \in DOMAIN volumes : volumes[w] = 0
    /\ reagents = <<"sulfate">>
    /\ moles = <<[w \in DOMAIN volumes |-> 0]>>

---------------------------------------------------------------------------
(* The overflow warning, once printed, under Spec.                         *)

\* some well of the plate holds more than max_volume_per_well
Overflowed == \E w \in DOMAIN volumes : volumes[w] > max_volume_per_well

\* the wells that the latest entry of the log adds to
LatestWells ==
    {w \in DOMAIN volumes : canonical_volume(instructions[Len(instructions)][2], w) > 0}

\* C27: overflow is persistent. A call that has printed the warning leaves a
\* well over max_volume_per_well; no step takes the plate out of that state;
\* and in that state every dispensing call that succeeds prints the warning
\* again, whatever wells it adds to. So once the warning has been printed,
\* every later dispensing call that succeeds prints it.
C27_OverflowPersists ==
    /\ [](warned => Overflowed)
    /\ [][/\ Overflowed => Overflowed'
          /\ (Overflowed /\ Succeeded) => warned']_vars

\* the warning is printed by a second call that has added only to wells
\* that are not over the limit, the first call having overflowed a well it
\* alone has added to
C27_Witness ==
    /\ call # NoCall
    /\ warned
    /\ raised = NotRaised
    /\ Len(instructions) = 2
    /\ LatestWells # {}
    /\ \A w \in LatestWells : volumes[w] <= max_volume_per_well
    /\ \E w \in DOMAIN volumes \ LatestWells :
           /\ volumes[w] > max_volume_per_well
           /\ canonical_volume(instructions[1][2], w) = volumes[w]

---------------------------------------------------------------------------
(* What the plate holds never goes down, under Spec.                       *)

\* the total of the source `what` in the ledger `used`, 0 if it has none
UsedOf(ledger, what) ==
    IF \E k \in 1..Len(ledger) : ledger[k][1] = what
    THEN (CHOOSE e \in {ledger[k] : k \in 1..Len(ledger)} : e[1] = what)[2]
    ELSE 0

\* no volume, amount or total is under zero, and a well of no volume holds
\* no amount of any reagent
NonNegative ==
    /\ \A w \in DOMAIN volumes : volumes[w] >= 0
    /\ \A k \in 1..Len(moles), w \in DOMAIN volumes :
           /\ moles[k][w] >= 0
           /\ volumes[w] = 0 => moles[k][w] = 0
    /\ \A k \in 1..Len(volumes_used) : volumes_used[k][2] >= 0

\* no volume, amount or total is lower after the step than before it
NoDecrease ==
    /\ \A w \in DOMAIN volumes : volumes'[w] >= volumes[w]
    /\ Len(moles') >= Len(moles)
    /\ \A k \in 1..Len(moles), w \in DOMAIN volumes : moles'[k][w] >= moles[k][w]
    /\ \A k \in 1..Len(volumes_used) :
           UsedOf(volumes_used', volumes_used[k][1]) >= volumes_used[k][2]

\* C28: through every sequence of calls, those that raise included, no
\* volume of a well, no entry of the moles grid and no total of volumes_used
\* goes down, all of them are at least 0, and a well whose volume is 0 holds
\* 0 micromoles of every reagent.
C28_NothingDecreases ==
    /\ []NonNegative
    /\ [][NoDecrease]_vars

\* a call has raised on a plate that holds a stock solution in one well and
\* nothing in another
C28_Witness ==
    /\ call # NoCall
    /\ raised # NotRaised
    /\ Len(instructions) = 1
    /\ \E k \in 1..Len(moles), w \in DOMAIN volumes : moles[k][w] > 0
    /\ \E w \in DOMAIN volumes : volumes[w] = 0
    /\ \E k \in 1..Len(volumes_used) : volumes_used[k][2] > 0

---------------------------------------------------------------------------
(* Names and numerals of an axis, under SpecCanon.                         *)

\* <<rows, columns, max_volume_per_well>> of all the constructions
ConstructionArguments ==
    PlateArguments
    \cup {<<letters(8), IntV(12), FloatV(500)>>, <<letters(16), IntV(24), IntV(100)>>}

\* the arguments that give the axes of the plate
ArgumentsOfPlate ==
    {a \in ConstructionArguments :
        LET p == Plate(a[1], a[2], a[3])
        IN  /\ p.ok
            /\ n_rows = p.val.n_rows
            /\ row_names = p.val.row_names
            /\ n_columns = p.val.n_columns
            /\ column_names = p.val.column_names}

\* the strings that are tried on an axis: those of Specs, the names of the
\* axis, and the numerals of its positions, bare, after a space, signed and
\* after a zero
Numerals(n) ==
    UNION {{format_int(k), <<" ">> \o format_int(k), <<"+">> \o format_int(k),
            <<"0">> \o format_int(k)} : k \in 1..n}

StringsOf(names, n) ==
    {v.s : v \in {u \in Specs : u.t = "str"}}
    \cup {names[k] : k \in 1..Len(names)}
    \cup Numerals(n)

\* the two rules of lines 389-393 and 411-415
ByName(names, s) == contains(names, s)
ByNumeral(n, s) == int_parses(s) /\ int_of(s) > 0 /\ int_of(s) <= n

\* an axis of n names, given as `given`, and resolved by `resolve`
Unambiguous(names, n, given, resolve(_)) ==
    /\ \A s \in StringsOf(names, n) :
           /\ (ByName(names, s) /\ ByNumeral(n, s)) =>
                  /\ index(names, s) = int_of(s) - 1
                  /\ resolve(StrV(s)) = Ok(int_of(s) - 1)
           /\ given.t = "list" => ~(ByName(names, s) /\ ByNumeral(n, s))
    /\ given.t = "int" =>
           \A k \in 1..n :
               /\ ByName(names, format_int(k))
               /\ ByNumeral(n, format_int(k))
               /\ names[k] = format_int(k)
               /\ resolve(StrV(format_int(k))) = Ok(k - 1)

\* C29: on every plate that can be constructed, a row or column string that
\* is both a name of the axis and a numeral of 1..length is given the same
\* index by the two rules, which is the index it resolves to; on an axis
\* given as a list of names no string is both; on an axis given as a count
\* the name "k" is the well at the 1-indexed position k.
C29_ResolutionUnambiguous ==
    /\ ArgumentsOfPlate # {}
    /\ \A a \in ArgumentsOfPlate :
           /\ Unambiguous(row_names, n_rows, a[1], row_index)
           /\ Unambiguous(column_names, n_columns, a[2], column_index)

\* on the plate of three counted rows the row "2", a name and a numeral, has
\* been resolved to the second row, and the column "B" by its name
C29_Witness ==
    /\ call # NoCall
    /\ call.op = "get_canonical_form"
    /\ call.location = Loc(Str(<<"2">>), Str(<<"B">>))
    /\ row_names = count_names(3)
    /\ ByName(row_names, <<"2">>) /\ ByNumeral(n_rows, <<"2">>)
    /\ raised = NotRaised
    /\ returned = Pair(1, 1)

=============================================================================
